---- MODULE Spec2Model ----
(***************************************************************************)
(* Synchronization core of oh-my-prompt: prompt records in a store, the    *)
(* IDE rules files, and the mechanisms that keep a push of a record into a *)
(* rules file from being taken for an external edit.  The repository holds *)
(* several revisions of the mechanism; each is modelled as its own         *)
(* specification over a shared environment (IDE identity, rules files,     *)
(* prompt store).                                                          *)
(*                                                                         *)
(*   SpecSet  : pending-set DocumentWatcher (src/services/documentWatcher  *)
(*              .ts, second revision) with the save and change handlers    *)
(*   SpecEmit : pending-set DocumentWatcher with fileChangeEmitter         *)
(*   SpecLock : global-lock DocumentWatcher and the PromptManager that     *)
(*              calls markSynced                                           *)
(*   SpecDoc  : the global lock used as the architecture document says     *)
(*   SpecTrack: trackSyncOperation around pushes that overlap in time      *)
(*   SpecSave: the save handler of the pending-set design alone           *)
(*   SpecPick: selections in the status bar's quick pick                   *)
(*   SpecFiles: savePrompt and deletePrompt on prompt files by key         *)
(*   SpecStore: PromptManager as a store of prompt files (savePrompt,      *)
(*              loadPrompts, createPrompt, importFromIdeRules, the rules   *)
(*              watcher's classification), with the files as texts         *)
(***************************************************************************)
EXTENDS Integers, Sequences, FiniteSets, TLC

(***************************************************************************)
(* Bounds                                                                  *)
(***************************************************************************)
\* number of save-handler invocations in a behaviour
MaxSave == 2
\* number of change-handler invocations in a behaviour
MaxChg == 1
\* number of pushes through trackSyncOperation in a behaviour
MaxPush == 1
\* number of handleFileChange invocations in a behaviour
MaxWat == 1
\* number of external edits of rules files in a behaviour
MaxEdits == 1
\* number of user-owned prompt files per category
NumPrompts == 1
\* last value of the wall clock (seconds) used for imported ids
MaxClock == 1
\* number of save events handled by the global-lock DocumentWatcher
MaxLkSave == 2
\* number of pushes that use the lock as documented
MaxDocPush == 2
\* longest record content (characters) given to the prompt store
MaxLen == 2
\* longest meta value (characters) given to the prompt store
MaxNameLen == 1
\* number of prompt store operations in a behaviour
MaxOps == 3
\* number of start() calls and workspace-folder changes in a behaviour
MaxWatchCalls == 3

(***************************************************************************)
(* Values                                                                  *)
(***************************************************************************)
Category == {"global", "project"}
IDEType == {"vscode", "windsurf", "cursor", "unknown"}
\* texts of rules files and records; "" is the empty text
Content == {"", "A", "B"}
\* contents that pass PromptSchema (content: z.string().min(1))
ValidContent == Content \ {""}
Missing == "<missing>"
Absent == "<absent>"
Invalid == "<invalid>"
NoPath == <<"throw">>
CursorSettings == <<"cursor://settings">>

Ids == 1..(NumPrompts + 1 + MaxClock)
ImportId(t) == NumPrompts + 1 + t

\* path of the prompt file of record k of category c under the prompt directory
PromptFile(c, k) == <<"prompts", c, k>>

\* EnvironmentDetector.getRulesPath: the path, or NoPath when it throws
RulesPath(i, c) ==
    IF c = "global"
    THEN CASE i = "windsurf" -> <<".codeium/windsurf/memories/global_rules.md">>
           [] i = "cursor" -> CursorSettings
           [] OTHER -> NoPath
    ELSE CASE i = "windsurf" -> <<".windsurfrules">>
           [] i = "cursor" -> <<".cursorrules">>
           [] OTHER -> NoPath

\* getRulesPath creates the file empty when it does not exist
\* (except for Cursor global rules)
CreatesFile(i, c) == RulesPath(i, c) \notin {NoPath, CursorSettings}

\* results of opening a rules path for writing
OpenOutcomes(p) == IF p = CursorSettings THEN {"ok", "ENOENT"} ELSE {"ok"}

\* variant: the empty text is written whether or not the file exists
EnsureFileTruncate(f, i, c) ==
    IF CreatesFile(i, c) THEN [f EXCEPT ![c] = ""] ELSE f
\* variant: resolving one category's path creates every missing rules file
EnsureFileEvery(f, i, c) ==
    [d \in Category |-> IF CreatesFile(i, d) /\ f[d] = Missing THEN "" ELSE f[d]]
EnsureFile(f, i, c) ==
    IF CreatesFile(i, c) /\ f[c] = Missing THEN [f EXCEPT ![c] = ""] ELSE f

(***************************************************************************)
(* Prompt files as texts                                                   *)
(***************************************************************************)
\* characters of a text: "a" an ordinary character, "NL" a line feed,
\* "Q" a double quote, "EQ" the three characters " = "; the words the
\* serialisers emit ("[meta]", "content", the key names, category names and
\* ids) are one element each
Char == {"a", "NL", "Q", "EQ"}
RECURSIVE TextsOfLen(_)
TextsOfLen(n) ==
    IF n = 0 THEN {<<>>}
    ELSE {Append(t, ch) : t \in TextsOfLen(n - 1), ch \in Char}
TextsUpTo(n) == UNION {TextsOfLen(m) : m \in 0..n}

\* the keys of PromptMeta the model follows (the other five are written and
\* read the same way)
MetaKeys == {"type", "id", "name"}
\* value of a property that was never assigned
Undefined == <<"<undefined>">>
\* no file at a path
NoFile == <<"<nofile>">>
\* constant names such as "New Prompt", "Untitled", "Imported from windsurf"
PlainName == <<"a">>
\* createPrompt's placeholder: a line feed, then "# Enter your prompt ..."
Placeholder == <<"NL", "a">>

Revisions == {"toml", "hand", "p5"}

\* new Date().toISOString() cut to the second
Timestamp(t) == "t" \o ToString(t)
\* id given by importFromIdeRules / importFromIdeRulesUnsaved
ImportedId(i, how, t) ==
    IF how = "saved" THEN "imported_" \o i \o "_" \o Timestamp(t)
    ELSE "untitled_" \o Timestamp(t)
\* the k-th value returned by uuidv4()
Uuid(k) == "uuid" \o ToString(k)
FileIds ==
    {"f1", "u1"}
    \cup {Timestamp(t) : t \in 0..MaxClock}
    \cup {ImportedId(i, how, t) : i \in IDEType, how \in {"saved", "unsaved"},
                                   t \in 0..MaxClock}
    \cup {Uuid(k) : k \in 1..MaxOps}

MinOf(S) == CHOOSE x \in S : \A y \in S : x <= y
MaxOf(S) == CHOOSE x \in S : \A y \in S : y <= x
\* positions at which sub occurs in t
Occurrences(t, sub) ==
    {p \in 1..(Len(t) - Len(sub) + 1) : SubSeq(t, p, p + Len(sub) - 1) = sub}
\* String.prototype.split with a string separator
RECURSIVE Split(_, _)
Split(t, sep) ==
    LET ps == Occurrences(t, sep) IN
    IF ps = {} THEN <<t>>
    ELSE LET p == MinOf(ps) IN
         <<SubSeq(t, 1, p - 1)>> \o Split(SubSeq(t, p + Len(sep), Len(t)), sep)
\* value.replace(/"/g, "")
StripQuotes(t) == SelectSeq(t, LAMBDA ch : ch # "Q")
HasNewline(t) == \E n \in DOMAIN t : t[n] = "NL"

Rec(c, id, name, content) ==
    [meta |-> [type |-> <<c>>, id |-> <<id>>, name |-> name], content |-> content]

\* the template string of the hand-written savePrompt
HandFormat(R) ==
    <<"[meta]", "NL", "type", "EQ", "Q">> \o R.meta.type
    \o <<"Q", "NL", "id", "EQ", "Q">> \o R.meta.id
    \o <<"Q", "NL", "name", "EQ", "Q">> \o R.meta.name
    \o <<"Q", "NL", "NL", "content", "EQ", "Q", "Q", "Q", "NL">> \o R.content
    \o <<"NL", "Q", "Q", "Q">>

\* TOML.stringify(prompt): the top-level key content first, then the table
\* [meta]; a string with line feeds is written as a multi-line string, one
\* without in the library's style
TomlStringify(R, style) ==
    (IF style = "basic" /\ ~HasNewline(R.content)
     THEN <<"content", "EQ", "Q">> \o R.content \o <<"Q">>
     ELSE <<"content", "EQ", "Q", "Q", "Q", "NL">> \o R.content
          \o <<"NL", "Q", "Q", "Q">>)
    \o <<"NL", "NL", "[meta]", "NL", "type", "EQ", "Q">> \o R.meta.type
    \o <<"Q", "NL", "id", "EQ", "Q">> \o R.meta.id
    \o <<"Q", "NL", "name", "EQ", "Q">> \o R.meta.name \o <<"Q", "NL">>

\* the text a revision's savePrompt / writePromptToFile writes
Serialize(rev, R, style) ==
    IF rev = "hand" THEN HandFormat(R) ELSE TomlStringify(R, style)

\* loadPrompts, one file: sections[0].split("\n").slice(1), each line split
\* at " = "
MetaLines(text) ==
    LET lines == Tail(Split(Split(text, <<"NL", "NL">>)[1], <<"NL">>)) IN
    [n \in DOMAIN lines |-> Split(lines[n], <<"EQ">>)]
\* meta[key] after the forEach: the last assignment wins
MetaValue(ml, key) ==
    LET ns == {n \in DOMAIN ml : ml[n][1] = <<key>>} IN
    IF ns = {} THEN Undefined ELSE StripQuotes(ml[MaxOf(ns)][2])
\* contentSection.match(/content = """\n([\s\S]*)\n"""/): group 1, or "" when
\* there is no match
ContentMatch(section) ==
    LET starts == Occurrences(section, <<"content", "EQ", "Q", "Q", "Q", "NL">>)
        ends == Occurrences(section, <<"NL", "Q", "Q", "Q">>)
    IN  IF starts = {} THEN <<>>
        ELSE LET from == MinOf(starts) + 6
                 qs == {q \in ends : q >= from}
             IN  IF qs = {} THEN <<>> ELSE SubSeq(section, from, MaxOf(qs) - 1)
\* value.trim() of an undefined value, or contentSection.match of an
\* undefined section
ParseThrows(text) ==
    \/ \E n \in DOMAIN MetaLines(text) : Len(MetaLines(text)[n]) < 2
    \/ Len(Split(text, <<"NL", "NL">>)) < 2
ParsePrompt(text) ==
    [meta |-> [k \in MetaKeys |-> MetaValue(MetaLines(text), k)],
     content |-> ContentMatch(Split(text, <<"NL", "NL">>)[2])]

VARIABLES
    ide,            \* IDE identity reported by EnvironmentDetector.detect
    fs,             \* content of the rules file of each category, or Missing
    notify,         \* a change of the rules file awaits delivery to the editor
    docText,        \* text of the editor document of the rules file
    store,          \* prompt directory: category -> id -> content
    clock,          \* wall clock in seconds
    edits,          \* number of external edits so far
    syncOperations, \* DocumentWatcher.syncOperations
    save,           \* invocations of the onDidSaveTextDocument handler
    chg,            \* invocations of the onDidChangeTextDocument handler
    push,           \* pushes run through trackSyncOperation (emitter revision)
    wat,            \* invocations of handleFileChange (emitter revision)
    tooltip,        \* text the status bar item of each category shows
    events,         \* events fired on fileChangeEmitter, each with the call
                    \* that fired it (by > 0: push, by < 0: handleFileChange)
    syncLock,       \* DocumentWatcher.syncLock
    syncTimeout,    \* DocumentWatcher.syncTimeout holds a pending timer
    lockTimers,     \* number of auto-release timers set and not yet fired or
                    \* cleared
    recentlySyncedFiles, \* DocumentWatcher.recentlySyncedFiles
    markTimers,     \* pending delete timers of markSynced, per category
    disposed,       \* DocumentWatcher.dispose() was called
    rulesWatch,     \* watchers and workspace-folder listeners registered by
                    \* DocumentWatcher.start (emitter revision)
    lsave,          \* save events handled by the global-lock DocumentWatcher
    dpush,          \* pushes that use the lock as documented
    processed,      \* categories whose notification the documented watcher
                    \* did not skip
    pmRev,          \* revision of PromptManager in use
    tomlStyle,      \* how the TOML library in use writes a one-line string
    input,          \* name and content of the record the user works with
    dir,            \* prompt directory: category -> file id -> text of the file
    saved,          \* records handed to the store: category -> file id -> record
    rulesText,      \* text of the rules file of each category
    lastOp,         \* the last store operation, its outcome and the list it
                    \* returned (loadPrompts)
    nops            \* number of store operations so far

envVars == <<ide, fs, notify, store, clock, edits>>
setVars == <<docText, save, chg>>
emitVars == <<push, wat, events, tooltip>>
lockVars == <<syncLock, syncTimeout, lockTimers>>
codeVars == <<recentlySyncedFiles, markTimers, lsave>>
docVars == <<dpush, processed>>
storeVars == <<pmRev, tomlStyle, input, dir, saved, rulesText, lastOp, nops>>
vars == <<envVars, syncOperations, setVars, emitVars, lockVars, codeVars, docVars,
          storeVars, disposed, rulesWatch>>
\* variables the pending-set specification leaves alone
notSet == <<emitVars, lockVars, codeVars, docVars, storeVars, disposed, rulesWatch>>
\* variables the emitter specification leaves alone
notEmit == <<setVars, lockVars, codeVars, docVars, storeVars, disposed, rulesWatch>>
\* variables the global-lock specification leaves alone
notLock == <<syncOperations, setVars, emitVars, docVars, storeVars, disposed, rulesWatch>>
\* variables the documented-usage specification leaves alone
notDoc == <<syncOperations, setVars, emitVars, codeVars, storeVars, disposed, rulesWatch>>
\* variables the overlapping-push specification leaves alone
notTrack == <<setVars, emitVars, lockVars, codeVars, storeVars, disposed, rulesWatch>>
\* variables the prompt store specification leaves alone
notStore == <<fs, notify, store, edits, syncOperations, setVars, emitVars,
              lockVars, codeVars, docVars, disposed, rulesWatch>>

\* contents loadPrompts returns for a category (unparsable files are dropped)
LoadedContents(c) == {store[c][k] : k \in Ids} \ {Absent, Invalid}

IdleSave == [pc |-> "idle", type |-> "global", id |-> 1, content |-> "",
             err |-> FALSE, wrote |-> FALSE, root |-> TRUE]
IdleChg  == [pc |-> "idle", type |-> "global", prompts |-> {}, text |-> ""]

InitEnv ==
    /\ fs = [c \in Category |-> Missing]
    /\ notify = [c \in Category |-> FALSE]
    /\ store = [c \in Category |-> [k \in Ids |-> IF k = 1 THEN "A"
                                                     ELSE IF k <= NumPrompts THEN "B"
                                                     ELSE Absent]]
    /\ clock = 0
    /\ edits = 0

IdlePush == [pc |-> "idle", type |-> "global", rtype |-> "global",
             content |-> "", err |-> FALSE, calls |-> 0, wrote |-> FALSE,
             fired |-> FALSE]
IdleWat  == [pc |-> "idle", type |-> "global"]

InitSetVars ==
    /\ docText = [c \in Category |-> ""]
    /\ save = [i \in 1..MaxSave |-> IdleSave]
    /\ chg = [j \in 1..MaxChg |-> IdleChg]

\* content handed to the subscribers after readFile: "" when the read fails
ReadOrEmpty(f, c) == IF f[c] = Missing THEN "" ELSE f[c]

\* text of the tooltip for a content: `content || "No content"`
NoContent == "No content"
Shown(t) == IF t = "" THEN NoContent ELSE t

InitEmitVars ==
    /\ push = [i \in 1..MaxPush |-> IdlePush]
    /\ wat = [j \in 1..MaxWat |-> IdleWat]
    /\ events = {}
    /\ tooltip = [c \in Category |-> Shown(ReadOrEmpty(fs, c))]

\* first workspace folder: none open, or one of two folders
Roots == {"none", "r1", "r2"}
\* the rules paths start() can watch: the global one and one per folder
WatchPaths == {"global", "r1", "r2"}
\* before start(): nothing registered
NoWatch == [root |-> "none", listeners |-> 0, calls |-> 0, invoked |-> 0,
            active |-> [p \in WatchPaths |-> 0]]

IdleLk == [pc |-> "idle", kind |-> "omp", type |-> "global", content |-> ""]
IdleDoc == [pc |-> "idle", type |-> "global", content |-> ""]

InitLockVars ==
    /\ syncLock = FALSE
    /\ syncTimeout = FALSE
    /\ lockTimers = 0
    /\ recentlySyncedFiles = {}
    /\ markTimers = [c \in Category |-> 0]
    /\ lsave = [i \in 1..MaxLkSave |-> IdleLk]
    /\ disposed = FALSE
    /\ rulesWatch = NoWatch

InitDocVars ==
    /\ dpush = [i \in 1..MaxDocPush |-> IdleDoc]
    /\ processed = {}

NoOp == [op |-> "none", type |-> "global", id |-> "", out |-> "", list |-> {}]

InitStoreIdle ==
    /\ pmRev = "toml"
    /\ tomlStyle = "basic"
    /\ input = [name |-> <<>>, content |-> <<>>]
    /\ dir = [c \in Category |-> [f \in FileIds |-> NoFile]]
    /\ saved = [c \in Category |-> {}]
    /\ rulesText = [c \in Category |-> NoFile]
    /\ lastOp = NoOp
    /\ nops = 0

InitSet ==
    /\ ide \in IDEType
    /\ InitEnv
    /\ syncOperations = {}
    /\ InitSetVars
    /\ InitEmitVars
    /\ InitLockVars
    /\ InitDocVars
    /\ InitStoreIdle

(***************************************************************************)
(* Environment                                                             *)
(***************************************************************************)
\* another program (or the user, saving the file) changes a rules file
ExternalEdit(c, t) ==
    /\ edits < MaxEdits
    /\ CreatesFile(ide, c)
    /\ fs[c] # t
    /\ fs' = [fs EXCEPT ![c] = t]
    /\ notify' = [notify EXCEPT ![c] = TRUE]
    /\ edits' = edits + 1
    /\ UNCHANGED <<ide, store, clock>>

(***************************************************************************)
(* trackSyncOperation and isSyncing (pending-set design)                   *)
(***************************************************************************)
\* syncOperations.add(filePath)
TrackAdd(s, p) == s \cup {p}
\* variant: no finally block, the path is never removed
TrackNoFinally(s, p, threw) == s
\* variant: the delete sits at the end of the try block instead of finally
TrackFinallyOnSuccessOnly(s, p, threw) == IF threw THEN s ELSE s \ {p}
\* finally: syncOperations.delete(filePath), whether the operation threw
\* or not
TrackFinally(s, p, threw) == s \ {p}
\* variant: one flag for all paths
isSyncingAny(p) == syncOperations # {}
isSyncing(p) == p \in syncOperations

(***************************************************************************)
(* onDidSaveTextDocument handler of the pending-set DocumentWatcher        *)
(***************************************************************************)
\* path the save handler passes to trackSyncOperation: document.uri.fsPath
SaveTrackedPath(c, k) == PromptFile(c, k)

\* the user saves prompt file k of category c with text that parses to
\* content t; the handler enters trackSyncOperation and runs the operation
\* up to its first await (TOML.parse and PromptSchema.safeParse included)
SaveStart(i, c, k, t) ==
    /\ save[i].pc = "idle"
    /\ \A h \in 1..(i-1) : save[h].pc # "idle"
    /\ k \in 1..NumPrompts
    /\ store' = [store EXCEPT ![c][k] = IF t \in ValidContent THEN t ELSE Invalid]
    /\ syncOperations' = TrackAdd(syncOperations, SaveTrackedPath(c, k))
    /\ save' = [save EXCEPT ![i] =
                  [pc |-> IF t \in ValidContent THEN "resolve" ELSE "finally",
                   type |-> c, id |-> k, content |-> t,
                   err |-> t \notin ValidContent, wrote |-> FALSE,
                   root |-> TRUE]]
    /\ UNCHANGED <<ide, fs, notify, docText, clock, edits, chg>>
    /\ UNCHANGED notSet

\* the user saves project prompt file k with valid text while no workspace
\* folder is open: the operation throws "Workspace root not found" before
\* syncProjectPrompt is called
SaveNoRoot(i, k, t) ==
    /\ save[i].pc = "idle"
    /\ \A h \in 1..(i-1) : save[h].pc # "idle"
    /\ k \in 1..NumPrompts
    /\ t \in ValidContent
    /\ store' = [store EXCEPT !["project"][k] = t]
    /\ syncOperations' = TrackAdd(syncOperations, SaveTrackedPath("project", k))
    /\ save' = [save EXCEPT ![i] =
                  [pc |-> "finally", type |-> "project", id |-> k,
                   content |-> t, err |-> TRUE, wrote |-> FALSE,
                   root |-> FALSE]]
    /\ UNCHANGED <<ide, fs, notify, docText, clock, edits, chg>>
    /\ UNCHANGED notSet

\* syncGlobalPrompt / syncProjectPrompt: detect() and getRulesPath()
SaveResolve(i) ==
    /\ save[i].pc = "resolve"
    /\ IF RulesPath(ide, save[i].type) = NoPath
       THEN /\ save' = [save EXCEPT ![i].pc = "finally", ![i].err = TRUE]
            /\ fs' = fs
       ELSE /\ save' = [save EXCEPT ![i].pc = "write"]
            /\ fs' = EnsureFile(fs, ide, save[i].type)
    /\ UNCHANGED <<ide, notify, docText, store, clock, edits,
                   syncOperations, chg>>
    /\ UNCHANGED notSet

\* fs.writeFile(targetPath, prompt.content) opens the file for writing,
\* which truncates it.  The Cursor settings pseudo path is taken relative to
\* the working directory: the open fails with ENOENT unless a directory
\* named "cursor:" happens to exist there.
SaveWriteBegin(i, outcome) ==
    /\ save[i].pc = "write"
    /\ outcome \in OpenOutcomes(RulesPath(ide, save[i].type))
    /\ IF outcome = "ENOENT"
       THEN /\ save' = [save EXCEPT ![i].pc = "finally", ![i].err = TRUE]
            /\ UNCHANGED <<fs, notify>>
       ELSE /\ save' = [save EXCEPT ![i].pc = "writing"]
            /\ fs' = [fs EXCEPT ![save[i].type] = ""]
            /\ notify' = [notify EXCEPT ![save[i].type] = TRUE]
    /\ UNCHANGED <<ide, docText, store, clock, edits, syncOperations, chg>>
    /\ UNCHANGED notSet

\* the write completes
SaveWriteEnd(i) ==
    /\ save[i].pc = "writing"
    /\ fs' = [fs EXCEPT ![save[i].type] = save[i].content]
    /\ notify' = [notify EXCEPT ![save[i].type] = TRUE]
    /\ save' = [save EXCEPT ![i].pc = "finally", ![i].wrote = TRUE]
    /\ UNCHANGED <<ide, docText, store, clock, edits, syncOperations, chg>>
    /\ UNCHANGED notSet

\* the write fails after the file was opened
SaveWriteFail(i) ==
    /\ save[i].pc = "writing"
    /\ save' = [save EXCEPT ![i].pc = "finally", ![i].err = TRUE]
    /\ UNCHANGED <<envVars, docText, syncOperations, chg>>
    /\ UNCHANGED notSet

\* finally block of trackSyncOperation; an error is caught and logged by the
\* handler's own catch
SaveFinally(i) ==
    /\ save[i].pc = "finally"
    /\ syncOperations' = TrackFinally(syncOperations,
                                      SaveTrackedPath(save[i].type, save[i].id),
                                      save[i].err)
    /\ save' = [save EXCEPT ![i] =
                  [IdleSave EXCEPT !.pc = IF save[i].err THEN "failed" ELSE "done"]]
    /\ UNCHANGED <<envVars, docText, chg>>
    /\ UNCHANGED notSet

(***************************************************************************)
(* onDidChangeTextDocument handler of the pending-set DocumentWatcher      *)
(***************************************************************************)
\* the editor reloads the rules document after a change on disk and fires
\* the event; the handler returns at once when the file is being synced
ChgStart(j, c) ==
    /\ chg[j].pc = "idle"
    /\ \A h \in 1..(j-1) : chg[h].pc # "idle"
    /\ notify[c]
    /\ fs[c] # Missing
    /\ notify' = [notify EXCEPT ![c] = FALSE]
    /\ docText' = [docText EXCEPT ![c] = fs[c]]
    /\ chg' = [chg EXCEPT ![j] =
                 IF isSyncing(RulesPath(ide, c))
                 THEN [IdleChg EXCEPT !.pc = "done"]
                 ELSE [IdleChg EXCEPT !.pc = "load", !.type = c]]
    /\ UNCHANGED <<ide, fs, store, clock, edits, syncOperations, save>>
    /\ UNCHANGED notSet

\* getRulesType resolves the global rules path and, when the changed file is
\* not the global one, the project rules path; getRulesPath creates a
\* missing file.  Then loadPrompts(type)
ChgLoad(j) ==
    /\ chg[j].pc = "load"
    /\ fs' = IF chg[j].type = "global" THEN EnsureFile(fs, ide, "global")
             ELSE EnsureFile(EnsureFile(fs, ide, "global"), ide, "project")
    /\ chg' = [chg EXCEPT ![j].pc = "compare",
                          ![j].prompts = LoadedContents(chg[j].type)]
    /\ UNCHANGED <<ide, notify, store, clock, edits, docText,
                   syncOperations, save>>
    /\ UNCHANGED notSet

\* document.getText() and prompts.find(p => p.prompt.content === content);
\* without a match the save-as-new-prompt dialog opens
ChgCompare(j) ==
    /\ chg[j].pc = "compare"
    /\ LET content == docText[chg[j].type] IN
       chg' = [chg EXCEPT ![j] =
                 IF content \in chg[j].prompts
                 THEN [IdleChg EXCEPT !.pc = "done"]
                 ELSE [IdleChg EXCEPT !.pc = "dialog", !.type = chg[j].type,
                          !.text = content]]
    /\ UNCHANGED <<envVars, docText, syncOperations, save>>
    /\ UNCHANGED notSet

\* the user answers the dialog, or dismisses it
ChgAnswer(j, answer) ==
    /\ chg[j].pc = "dialog"
    /\ chg' = [chg EXCEPT ![j] =
                 IF answer = "Save"
                 THEN [IdleChg EXCEPT !.pc = "import", !.type = chg[j].type]
                 ELSE [IdleChg EXCEPT !.pc = "done"]]
    /\ UNCHANGED <<envVars, docText, syncOperations, save>>
    /\ UNCHANGED notSet

\* importFromIdeRulesUnsaved(type) reads the rules file, savePrompt stores
\* the record under an id made of the title and the current second
ChgImport(j) ==
    /\ chg[j].pc = "import"
    /\ store' = [store EXCEPT ![chg[j].type][ImportId(clock)] = fs[chg[j].type]]
    /\ chg' = [chg EXCEPT ![j] = [IdleChg EXCEPT !.pc = "done"]]
    /\ UNCHANGED <<ide, fs, notify, docText, clock, edits,
                   syncOperations, save>>
    /\ UNCHANGED notSet

SetExternalEdit(c, t) ==
    /\ ExternalEdit(c, t)
    /\ UNCHANGED <<syncOperations, setVars, notSet>>

NextSet ==
    \/ \E c \in Category, t \in Content : SetExternalEdit(c, t)
    \/ \E i \in 1..MaxSave, c \in Category, k \in Ids, t \in Content :
          SaveStart(i, c, k, t)
    \/ \E i \in 1..MaxSave, k \in Ids, t \in Content : SaveNoRoot(i, k, t)
    \/ \E i \in 1..MaxSave : SaveResolve(i)
    \/ \E i \in 1..MaxSave, o \in {"ok", "ENOENT"} :
          SaveWriteBegin(i, o)
    \/ \E i \in 1..MaxSave : SaveWriteEnd(i)
    \/ \E i \in 1..MaxSave : SaveWriteFail(i)
    \/ \E i \in 1..MaxSave : SaveFinally(i)
    \/ \E j \in 1..MaxChg, c \in Category : ChgStart(j, c)
    \/ \E j \in 1..MaxChg : ChgLoad(j)
    \/ \E j \in 1..MaxChg : ChgCompare(j)
    \/ \E j \in 1..MaxChg, a \in {"Save", "Ignore"} :
          ChgAnswer(j, a)
    \/ \E j \in 1..MaxChg : ChgImport(j)

SpecSet == InitSet /\ [][NextSet]_vars

(***************************************************************************)
(* SpecSave: the onDidSaveTextDocument handler of the pending-set design   *)
(* on its own: up to MaxSave overlapping handlers, no pushes and no file   *)
(* watcher callbacks.                                                      *)
(***************************************************************************)
NextSave ==
    \/ \E i \in 1..MaxSave, c \in Category, k \in Ids, t \in Content :
          SaveStart(i, c, k, t)
    \/ \E i \in 1..MaxSave, k \in Ids, t \in Content : SaveNoRoot(i, k, t)
    \/ \E i \in 1..MaxSave : SaveResolve(i)
    \/ \E i \in 1..MaxSave, o \in {"ok", "ENOENT"} :
          SaveWriteBegin(i, o)
    \/ \E i \in 1..MaxSave : SaveWriteEnd(i)
    \/ \E i \in 1..MaxSave : SaveWriteFail(i)
    \/ \E i \in 1..MaxSave : SaveFinally(i)

SpecSave == InitSet /\ [][NextSave]_vars

\* the handler's record is one of a save that is rejected before any sync
\* call: the text fails TOML parsing or schema validation, or no workspace
\* folder is open for a project prompt
SaveRejected(r) == r.content \notin ValidContent \/ ~r.root

\* C37 (handler start): a rejected save writes to no rules file and goes
\* straight to its finally block with an error
C37_RejectedStart ==
    [][\A i \in 1..MaxSave :
         (save[i].pc = "idle" /\ save'[i].pc # "idle"
            /\ SaveRejected(save'[i]))
         => /\ fs' = fs
            /\ save'[i].pc = "finally"
            /\ save'[i].err
            /\ ~save'[i].wrote]_vars

\* C37 (handler end): the only further step of a rejected save is its
\* finally block, which writes to no rules file, ends without the success
\* message and leaves the handler's path out of the in-flight set
C37_RejectedEnd ==
    [][\A i \in 1..MaxSave :
         (save[i].pc \notin {"idle", "done", "failed"}
            /\ SaveRejected(save[i]) /\ save'[i] # save[i])
         => /\ fs' = fs
            /\ save'[i].pc = "failed"
            /\ SaveTrackedPath(save[i].type, save[i].id)
                 \notin syncOperations']_vars

\* C37: when a saved prompt file fails TOML parsing or schema validation, or
\* a project prompt is saved with no workspace root, the save handler writes
\* nothing to any rules file, shows no success message, and its path is out
\* of the in-flight set when the handler ends; the set is empty again once
\* every handler has ended
C37_RejectedSaveIsInert ==
    /\ C37_RejectedStart
    /\ C37_RejectedEnd
    /\ [](( \A i \in 1..MaxSave : save[i].pc \in {"idle", "done", "failed"})
           => syncOperations = {})

\* C37 witness: on an IDE whose rules paths always resolve, a handler has
\* ended as failed with every rules file still missing and the set empty
C37_Witness ==
    /\ ide = "windsurf"
    /\ save[1].pc = "failed"
    /\ \A c \in Category : fs[c] = Missing
    /\ syncOperations = {}

\* content of the record createPromptUnsaved returns and createPrompt writes
\* to the prompt file; importing a rules file with no text gives the same
CreatedContent == ""

\* C38: saving the prompt file of a record the system produced itself (here
\* the record of createPrompt, unedited) passes the handler's validation and
\* goes on to the sync call
C38_CreatedRecordSaves ==
    [][\A i \in 1..MaxSave :
         (save[i].pc = "idle" /\ save'[i].pc # "idle" /\ save'[i].root
            /\ save'[i].content = CreatedContent)
         => (~save'[i].err /\ save'[i].pc = "resolve")]_vars

(***************************************************************************)
(* SpecEmit: DocumentWatcher with fileChangeEmitter (emitter revision).    *)
(* A push runs syncGlobalPrompt / syncProjectPrompt as the operation of    *)
(* trackSyncOperation(rulesPath, operation).                               *)
(***************************************************************************)
\* variant: the event is fired in the finally block, also after a throw
TrackAfterOperationAlwaysFire(threw) == "fire"
\* step of trackSyncOperation after `await operation()`: the event is fired
\* inside the try block, so it is skipped when the operation threw
TrackAfterOperation(threw) == IF threw THEN "finally" ELSE "fire"

\* variant: the sync functions accept a record of any type
TypeMatchesAlways(c, r) == TRUE
\* syncGlobalPrompt / syncProjectPrompt: prompt.meta.type is the category of
\* the function, otherwise it throws
TypeMatches(c, r) == r = c

\* a push of a stored record with meta.type r and content t to category c
\* (syncGlobalPrompt for "global", syncProjectPrompt for "project") starts:
\* the type is checked, the rules path is resolved,
\* trackSyncOperation adds it and the operation runs up to the write
PushStart(i, c, r, t) ==
    /\ push[i].pc = "idle"
    /\ \A h \in 1..(i-1) : push[h].pc # "idle"
    /\ t \in LoadedContents(r)
    /\ IF ~TypeMatches(c, r) \/ RulesPath(ide, c) = NoPath
       THEN /\ push' = [push EXCEPT ![i] =
                          [IdlePush EXCEPT !.pc = "failed", !.type = c,
                                           !.rtype = r,
                                           !.content = t, !.err = TRUE]]
            /\ UNCHANGED <<fs, syncOperations>>
       ELSE /\ push' = [push EXCEPT ![i] =
                          [IdlePush EXCEPT !.pc = "write", !.type = c,
                                           !.rtype = r, !.content = t]]
            /\ syncOperations' = TrackAdd(syncOperations, RulesPath(ide, c))
            /\ fs' = EnsureFile(fs, ide, c)
    /\ UNCHANGED <<ide, notify, store, clock, edits, wat, events, tooltip>>
    /\ UNCHANGED notEmit

\* fs.writeFile(targetPath, prompt.content) is called and opens the file
PushWriteBegin(i, outcome) ==
    /\ push[i].pc = "write"
    /\ outcome \in OpenOutcomes(RulesPath(ide, push[i].type))
    /\ IF outcome = "ENOENT"
       THEN /\ push' = [push EXCEPT ![i].pc = TrackAfterOperation(TRUE),
                                    ![i].err = TRUE,
                                    ![i].calls = push[i].calls + 1]
            /\ UNCHANGED <<fs, notify>>
       ELSE /\ push' = [push EXCEPT ![i].pc = "writing",
                                    ![i].calls = push[i].calls + 1]
            /\ fs' = [fs EXCEPT ![push[i].type] = ""]
            /\ notify' = [notify EXCEPT ![push[i].type] = TRUE]
    /\ UNCHANGED <<ide, store, clock, edits, syncOperations, wat, events, tooltip>>
    /\ UNCHANGED notEmit

\* the write completes and the operation returns
PushWriteEnd(i) ==
    /\ push[i].pc = "writing"
    /\ fs' = [fs EXCEPT ![push[i].type] = push[i].content]
    /\ notify' = [notify EXCEPT ![push[i].type] = TRUE]
    /\ push' = [push EXCEPT ![i].pc = TrackAfterOperation(FALSE),
                            ![i].wrote = TRUE]
    /\ UNCHANGED <<ide, store, clock, edits, syncOperations, wat, events, tooltip>>
    /\ UNCHANGED notEmit

\* variant: a failed write is attempted again
PushWriteFailRetry(i) ==
    /\ push[i].pc = "writing"
    /\ push' = [push EXCEPT ![i].pc = "write"]
    /\ UNCHANGED <<envVars, syncOperations, wat, events, tooltip>>
    /\ UNCHANGED notEmit
\* the write fails and the operation throws
PushWriteFail(i) ==
    /\ push[i].pc = "writing"
    /\ push' = [push EXCEPT ![i].pc = TrackAfterOperation(TRUE), ![i].err = TRUE]
    /\ UNCHANGED <<envVars, syncOperations, wat, events, tooltip>>
    /\ UNCHANGED notEmit

\* getRulesType(filePath), readFile(filePath) and fileChangeEmitter.fire
PushFire(i) ==
    /\ push[i].pc = "fire"
    /\ events' = events \cup {[type |-> push[i].type,
                                content |-> ReadOrEmpty(fs, push[i].type),
                                by |-> i]}
    /\ tooltip' = [tooltip EXCEPT ![push[i].type] =
                        Shown(ReadOrEmpty(fs, push[i].type))]
    /\ push' = [push EXCEPT ![i].pc = "finally", ![i].fired = TRUE]
    /\ UNCHANGED <<envVars, syncOperations, wat>>
    /\ UNCHANGED notEmit

\* finally block of trackSyncOperation; an error goes on to the caller
PushFinally(i) ==
    /\ push[i].pc = "finally"
    /\ syncOperations' = TrackFinally(syncOperations,
                                      RulesPath(ide, push[i].type), push[i].err)
    /\ push' = [push EXCEPT ![i].pc = IF push[i].err THEN "failed" ELSE "done"]
    /\ UNCHANGED <<envVars, wat, events, tooltip>>
    /\ UNCHANGED notEmit

\* the file system watcher reports a change of the rules file of c;
\* handleFileChange returns at once when the path is being synced
WatStart(j, c) ==
    /\ wat[j].pc = "idle"
    /\ \A h \in 1..(j-1) : wat[h].pc # "idle"
    /\ notify[c]
    /\ CreatesFile(ide, c)
    /\ notify' = [notify EXCEPT ![c] = FALSE]
    /\ wat' = [wat EXCEPT ![j] =
                 IF isSyncing(RulesPath(ide, c))
                 THEN [IdleWat EXCEPT !.pc = "done"]
                 ELSE [IdleWat EXCEPT !.pc = "read", !.type = c]]
    /\ UNCHANGED <<ide, fs, store, clock, edits, syncOperations, push, events, tooltip>>
    /\ UNCHANGED notEmit

\* readFile(rulesPath) and fileChangeEmitter.fire({ type, content })
WatRead(j) ==
    /\ wat[j].pc = "read"
    /\ events' = events \cup {[type |-> wat[j].type,
                                content |-> ReadOrEmpty(fs, wat[j].type),
                                by |-> 0 - j]}
    /\ tooltip' = [tooltip EXCEPT ![wat[j].type] =
                        Shown(ReadOrEmpty(fs, wat[j].type))]
    /\ wat' = [wat EXCEPT ![j] = [IdleWat EXCEPT !.pc = "done"]]
    /\ UNCHANGED <<envVars, syncOperations, push>>
    /\ UNCHANGED notEmit

EmitExternalEdit(c, t) ==
    /\ ExternalEdit(c, t)
    /\ UNCHANGED <<syncOperations, emitVars, notEmit>>

InitEmit ==
    /\ ide \in IDEType
    /\ InitEnv
    /\ syncOperations = {}
    /\ InitSetVars
    /\ InitEmitVars
    /\ InitLockVars
    /\ InitDocVars
    /\ InitStoreIdle

NextEmit ==
    \/ \E c \in Category, t \in Content : EmitExternalEdit(c, t)
    \/ \E i \in 1..MaxPush, c \in Category, r \in Category, t \in Content :
          PushStart(i, c, r, t)
    \/ \E i \in 1..MaxPush, o \in {"ok", "ENOENT"} :
          PushWriteBegin(i, o)
    \/ \E i \in 1..MaxPush : PushWriteEnd(i)
    \/ \E i \in 1..MaxPush : PushWriteFail(i)
    \/ \E i \in 1..MaxPush : PushFire(i)
    \/ \E i \in 1..MaxPush : PushFinally(i)
    \/ \E j \in 1..MaxWat, c \in Category : WatStart(j, c)
    \/ \E j \in 1..MaxWat : WatRead(j)

SpecEmit == InitEmit /\ [][NextEmit]_vars

(***************************************************************************)
(* SpecLock: global-lock DocumentWatcher (syncLock, syncTimeout,           *)
(* recentlySyncedFiles) with the PromptManager whose pushes call           *)
(* markSynced.                                                             *)
(***************************************************************************)
\* variant: the flag is set, no timer is armed
acquireSyncLockNoTimer ==
    /\ syncLock' = TRUE
    /\ syncTimeout' = syncTimeout
    /\ lockTimers' = lockTimers
\* variant: the new timer is armed without clearing the one already pending
acquireSyncLockKeepTimer ==
    /\ syncLock' = TRUE
    /\ syncTimeout' = TRUE
    /\ lockTimers' = lockTimers + 1
\* acquireSyncLock: set the flag, clear a pending timer and arm a new one
acquireSyncLock ==
    /\ syncLock' = TRUE
    /\ syncTimeout' = TRUE
    /\ lockTimers' = (IF syncTimeout THEN lockTimers - 1 ELSE lockTimers) + 1

\* releaseSyncLock: clear the flag and the pending timer
releaseSyncLock ==
    /\ syncLock' = FALSE
    /\ syncTimeout' = FALSE
    /\ lockTimers' = IF syncTimeout THEN lockTimers - 1 ELSE lockTimers

\* the continuation of `await this.acquireSyncLock()` is queued: it runs
\* before any other event, timer or I/O completion is served
LkContinuationQueued == \E i \in 1..MaxLkSave : lsave[i].pc = "locked"

\* onDidSaveTextDocument fires for prompt file k (kind "omp") or for the
\* rules file (kind "ide") of category c, saved with content t; the handler
\* returns at once when the lock is held
LkSaveStart(i, kind, c, k, t) ==
    /\ ~disposed
    /\ ~LkContinuationQueued
    /\ lsave[i].pc = "idle"
    /\ \A h \in 1..(i-1) : lsave[h].pc # "idle"
    /\ IF kind = "omp"
       THEN /\ k \in 1..NumPrompts
            /\ store' = [store EXCEPT ![c][k] =
                            IF t \in ValidContent THEN t ELSE Invalid]
            /\ UNCHANGED <<fs, edits>>
       ELSE /\ k = 1
            /\ CreatesFile(ide, c)
            /\ edits < MaxEdits
            /\ fs' = [fs EXCEPT ![c] = t]
            /\ edits' = edits + 1
            /\ store' = store
    /\ lsave' = [lsave EXCEPT ![i] =
                   IF syncLock
                   THEN [IdleLk EXCEPT !.pc = "skipped"]
                   ELSE [IdleLk EXCEPT !.pc = "paths", !.kind = kind,
                                       !.type = c, !.content = t]]
    /\ UNCHANGED <<ide, notify, clock, lockVars, recentlySyncedFiles, markTimers>>
    /\ UNCHANGED notLock

\* getRulesPath("global") and getRulesPath("project", workspaceRoot): a
\* throw ends the handler in its catch
LkSavePaths(i) ==
    /\ ~LkContinuationQueued
    /\ lsave[i].pc = "paths"
    /\ IF \E c \in Category : RulesPath(ide, c) = NoPath
       THEN /\ lsave' = [lsave EXCEPT ![i] = [IdleLk EXCEPT !.pc = "failed"]]
            /\ fs' = fs
       ELSE /\ lsave' = [lsave EXCEPT ![i].pc = "acquire"]
            /\ fs' = EnsureFile(EnsureFile(fs, ide, "global"), ide, "project")
    /\ UNCHANGED <<ide, notify, store, clock, edits, lockVars,
                   recentlySyncedFiles, markTimers>>
    /\ UNCHANGED notLock

\* `await this.acquireSyncLock()`: the body runs, the handler yields
LkSaveAcquire(i) ==
    /\ ~LkContinuationQueued
    /\ lsave[i].pc = "acquire"
    /\ acquireSyncLock
    /\ lsave' = [lsave EXCEPT ![i].pc = "locked"]
    /\ UNCHANGED <<envVars, recentlySyncedFiles, markTimers>>
    /\ UNCHANGED notLock

\* the handler goes on: handleIdePromptSave / handleOmpPromptSave is called
\* without await and runs up to its first await, then releaseSyncLock()
LkSaveHandle(i) ==
    /\ lsave[i].pc = "locked"
    /\ releaseSyncLock
    /\ lsave' = [lsave EXCEPT ![i].pc = "dialog"]
    /\ UNCHANGED <<envVars, recentlySyncedFiles, markTimers>>
    /\ UNCHANGED notLock

\* the user answers the "Apply Now" message or dismisses it.  Applying a
\* prompt parses and validates the document and resolves the rules path;
\* applying a rules file imports it as a new prompt
LkAnswer(i, answer) ==
    /\ ~LkContinuationQueued
    /\ lsave[i].pc = "dialog"
    /\ IF answer # "Apply Now"
       THEN /\ lsave' = [lsave EXCEPT ![i] = [IdleLk EXCEPT !.pc = "done"]]
            /\ store' = store
       ELSE IF lsave[i].kind = "ide"
       THEN /\ lsave' = [lsave EXCEPT ![i] = [IdleLk EXCEPT !.pc = "done"]]
            /\ store' = [store EXCEPT ![lsave[i].type][ImportId(clock)] =
                            fs[lsave[i].type]]
       ELSE /\ lsave' = [lsave EXCEPT ![i] =
                           IF lsave[i].content \in ValidContent
                           THEN [lsave[i] EXCEPT !.pc = "write"]
                           ELSE [IdleLk EXCEPT !.pc = "failed"]]
            /\ store' = store
    /\ UNCHANGED <<ide, fs, notify, clock, edits, lockVars,
                   recentlySyncedFiles, markTimers>>
    /\ UNCHANGED notLock

\* syncGlobalPrompt / syncProjectPrompt: fs.writeFile opens the rules file
LkWriteBegin(i, outcome) ==
    /\ ~LkContinuationQueued
    /\ lsave[i].pc = "write"
    /\ outcome \in OpenOutcomes(RulesPath(ide, lsave[i].type))
    /\ IF outcome = "ENOENT"
       THEN /\ lsave' = [lsave EXCEPT ![i] = [IdleLk EXCEPT !.pc = "failed"]]
            /\ UNCHANGED <<fs, notify>>
       ELSE /\ lsave' = [lsave EXCEPT ![i].pc = "writing"]
            /\ fs' = [fs EXCEPT ![lsave[i].type] = ""]
            /\ notify' = [notify EXCEPT ![lsave[i].type] = TRUE]
    /\ UNCHANGED <<ide, store, clock, edits, lockVars,
                   recentlySyncedFiles, markTimers>>
    /\ UNCHANGED notLock

\* the write completes; then documentWatcher.markSynced(ideRulesPath): the
\* path is added and a timer is set that deletes it
LkWriteEnd(i) ==
    /\ ~LkContinuationQueued
    /\ lsave[i].pc = "writing"
    /\ fs' = [fs EXCEPT ![lsave[i].type] = lsave[i].content]
    /\ notify' = [notify EXCEPT ![lsave[i].type] = TRUE]
    /\ recentlySyncedFiles' =
          recentlySyncedFiles \cup {RulesPath(ide, lsave[i].type)}
    /\ markTimers' = [markTimers EXCEPT ![lsave[i].type] = @ + 1]
    /\ lsave' = [lsave EXCEPT ![i] = [IdleLk EXCEPT !.pc = "done"]]
    /\ UNCHANGED <<ide, store, clock, edits, lockVars>>
    /\ UNCHANGED notLock

\* the write fails: the error is logged and shown, nothing is marked
LkWriteFail(i) ==
    /\ ~LkContinuationQueued
    /\ lsave[i].pc = "writing"
    /\ lsave' = [lsave EXCEPT ![i] = [IdleLk EXCEPT !.pc = "failed"]]
    /\ UNCHANGED <<envVars, lockVars, recentlySyncedFiles, markTimers>>
    /\ UNCHANGED notLock

\* a timer of markSynced fires: recentlySyncedFiles.delete(filePath)
MarkTimerFire(c) ==
    /\ ~LkContinuationQueued
    /\ markTimers[c] > 0
    /\ markTimers' = [markTimers EXCEPT ![c] = @ - 1]
    /\ recentlySyncedFiles' = recentlySyncedFiles \ {RulesPath(ide, c)}
    /\ UNCHANGED <<envVars, lockVars, lsave>>
    /\ UNCHANGED notLock

\* dispose(): the registered handlers are disposed and receive no further
\* event; the timers are left as they are
LkDispose ==
    /\ ~LkContinuationQueued
    /\ ~disposed
    /\ disposed' = TRUE
    /\ UNCHANGED <<envVars, lockVars, codeVars>>
    /\ UNCHANGED <<syncOperations, setVars, emitVars, docVars, storeVars,
                   rulesWatch>>

\* a rules text that begins with the comment "<!-- synced from prompt:"
Synced == "<!-- synced from prompt:A"
StartsWithMarker(t) == t = Synced

\* the "only handle manual edits" test: true when the event is neither an
\* undo nor a redo and none of its content changes inserts text
OnlyDeletionsSkipped(reason, deletion) ==
    reason \notin {"Undo", "Redo"} /\ deletion

\* onDidChangeTextDocument fires for the rules document of category c
\* after an edit in the editor that leaves text t; the handler runs up to
\* its decision.  deletion: no content change of the event inserts text
LkChange(j, c, t, reason, deletion) ==
    /\ ~disposed
    /\ ~LkContinuationQueued
    /\ chg[j].pc = "idle"
    /\ \A h \in 1..(j-1) : chg[h].pc # "idle"
    /\ CreatesFile(ide, c)
    /\ t # docText[c]
    /\ docText' = [docText EXCEPT ![c] = t]
    /\ IF RulesPath(ide, c) \in recentlySyncedFiles
       THEN /\ chg' = [chg EXCEPT ![j] = [IdleChg EXCEPT !.pc = "suppressed",
                                             !.type = c, !.text = t]]
            /\ fs' = fs
       ELSE /\ fs' = EnsureFile(EnsureFile(fs, ide, "global"), ide, "project")
            /\ chg' = [chg EXCEPT ![j] =
                  [pc |-> IF OnlyDeletionsSkipped(reason, deletion) THEN "skipped"
                          ELSE IF StartsWithMarker(t) THEN "skipped"
                          ELSE IF t \in LoadedContents(c) THEN "done"
                          ELSE "dialog",
                   type |-> c,
                   prompts |-> IF OnlyDeletionsSkipped(reason, deletion) THEN {}
                               ELSE LoadedContents(c),
                   text |-> t]]
    /\ UNCHANGED <<ide, notify, store, clock, edits, lockVars, codeVars>>
    /\ UNCHANGED <<syncOperations, save, emitVars, docVars, storeVars, disposed, rulesWatch>>

\* the user answers "Save" or "Ignore", or dismisses the message; "Save"
\* imports the rules file (not the document) as a new prompt
LkChangeAnswer(j, answer) ==
    /\ ~LkContinuationQueued
    /\ chg[j].pc = "dialog"
    /\ IF answer = "Save"
       THEN /\ fs' = EnsureFile(fs, ide, chg[j].type)
            /\ store' = [store EXCEPT ![chg[j].type][ImportId(clock)] =
                            fs'[chg[j].type]]
            /\ chg' = [chg EXCEPT ![j].pc = "imported"]
       ELSE /\ chg' = [chg EXCEPT ![j].pc = "ignored"]
            /\ UNCHANGED <<fs, store>>
    /\ UNCHANGED <<ide, notify, clock, edits, lockVars, codeVars>>
    /\ UNCHANGED <<syncOperations, docText, save, emitVars, docVars, storeVars, disposed, rulesWatch>>

InitLock ==
    /\ ide \in IDEType
    /\ InitEnv
    /\ syncOperations = {}
    /\ InitSetVars
    /\ InitEmitVars
    /\ InitLockVars
    /\ InitDocVars
    /\ InitStoreIdle

NextLock ==
    \/ \E i \in 1..MaxLkSave, kind \in {"omp", "ide"}, c \in Category,
          k \in Ids, t \in Content : LkSaveStart(i, kind, c, k, t)
    \/ \E i \in 1..MaxLkSave : LkSavePaths(i)
    \/ \E i \in 1..MaxLkSave : LkSaveAcquire(i)
    \/ \E i \in 1..MaxLkSave : LkSaveHandle(i)
    \/ \E i \in 1..MaxLkSave, a \in {"Apply Now", "dismiss"} : LkAnswer(i, a)
    \/ \E i \in 1..MaxLkSave, o \in {"ok", "ENOENT"} : LkWriteBegin(i, o)
    \/ \E i \in 1..MaxLkSave : LkWriteEnd(i)
    \/ \E i \in 1..MaxLkSave : LkWriteFail(i)
    \/ \E c \in Category : MarkTimerFire(c)
    \/ LkDispose
    \/ \E j \in 1..MaxChg, c \in Category, t \in Content \cup {Synced},
          reason \in {"none", "Undo", "Redo"}, deletion \in BOOLEAN :
          LkChange(j, c, t, reason, deletion)
    \/ \E j \in 1..MaxChg, a \in {"Save", "Ignore"} : LkChangeAnswer(j, a)

SpecLock == InitLock /\ [][NextLock]_vars

(***************************************************************************)
(* SpecDoc: the lock used as documented for a push,                        *)
(*   try { await acquireSyncLock(); await fs.writeFile(path, content) }    *)
(*   finally { releaseSyncLock() }                                         *)
(* and in the file watcher, if (this.syncLock) return.                     *)
(***************************************************************************)
\* a push of a stored record starts: the lock is acquired and fs.writeFile
\* is called on the resolved rules path
DocStart(i, c, t) ==
    /\ dpush[i].pc = "idle"
    /\ \A h \in 1..(i-1) : dpush[h].pc # "idle"
    /\ t \in LoadedContents(c)
    /\ RulesPath(ide, c) # NoPath
    /\ acquireSyncLock
    /\ fs' = EnsureFile(fs, ide, c)
    /\ dpush' = [dpush EXCEPT ![i] =
                   [pc |-> "write", type |-> c, content |-> t]]
    /\ UNCHANGED <<ide, notify, store, clock, edits, processed>>
    /\ UNCHANGED notDoc

\* the file is opened, which truncates it; when the open fails the finally
\* block releases the lock
DocWriteBegin(i, outcome) ==
    /\ dpush[i].pc = "write"
    /\ outcome \in OpenOutcomes(RulesPath(ide, dpush[i].type))
    /\ IF outcome = "ENOENT"
       THEN /\ dpush' = [dpush EXCEPT ![i] = [IdleDoc EXCEPT !.pc = "failed"]]
            /\ releaseSyncLock
            /\ UNCHANGED <<fs, notify>>
       ELSE /\ dpush' = [dpush EXCEPT ![i].pc = "writing"]
            /\ fs' = [fs EXCEPT ![dpush[i].type] = ""]
            /\ notify' = [notify EXCEPT ![dpush[i].type] = TRUE]
            /\ UNCHANGED lockVars
    /\ UNCHANGED <<ide, store, clock, edits, processed>>
    /\ UNCHANGED notDoc

\* the write completes and the finally block releases the lock
DocWriteEnd(i) ==
    /\ dpush[i].pc = "writing"
    /\ fs' = [fs EXCEPT ![dpush[i].type] = dpush[i].content]
    /\ notify' = [notify EXCEPT ![dpush[i].type] = TRUE]
    /\ releaseSyncLock
    /\ dpush' = [dpush EXCEPT ![i] = [IdleDoc EXCEPT !.pc = "done"]]
    /\ UNCHANGED <<ide, store, clock, edits, processed>>
    /\ UNCHANGED notDoc

\* the write fails and the finally block releases the lock
DocWriteFail(i) ==
    /\ dpush[i].pc = "writing"
    /\ releaseSyncLock
    /\ dpush' = [dpush EXCEPT ![i] = [IdleDoc EXCEPT !.pc = "failed"]]
    /\ UNCHANGED <<envVars, processed>>
    /\ UNCHANGED notDoc

\* the auto-release timer armed by acquireSyncLock fires
LockTimerFire ==
    /\ lockTimers > 0
    /\ syncLock' = FALSE
    /\ syncTimeout' = FALSE
    /\ lockTimers' = IF syncTimeout /\ lockTimers > 1 THEN lockTimers - 2
                     ELSE lockTimers - 1
    /\ UNCHANGED <<envVars, docVars>>
    /\ UNCHANGED notDoc

\* the file watcher is notified of a change of the rules file of c and
\* skips it when the lock is held
DocWatch(c) ==
    /\ notify[c]
    /\ notify' = [notify EXCEPT ![c] = FALSE]
    /\ processed' = IF syncLock THEN processed ELSE processed \cup {c}
    /\ UNCHANGED <<ide, fs, store, clock, edits, lockVars, dpush>>
    /\ UNCHANGED notDoc

InitDoc ==
    /\ ide \in IDEType
    /\ InitEnv
    /\ syncOperations = {}
    /\ InitSetVars
    /\ InitEmitVars
    /\ InitLockVars
    /\ InitDocVars
    /\ InitStoreIdle

NextDoc ==
    \/ \E i \in 1..MaxDocPush, c \in Category, t \in Content : DocStart(i, c, t)
    \/ \E i \in 1..MaxDocPush, o \in {"ok", "ENOENT"} : DocWriteBegin(i, o)
    \/ \E i \in 1..MaxDocPush : DocWriteEnd(i)
    \/ \E i \in 1..MaxDocPush : DocWriteFail(i)
    \/ LockTimerFire
    \/ \E c \in Category : DocWatch(c)

\* timers are eventually served
SpecDoc == InitDoc /\ [][NextDoc]_vars /\ WF_vars(LockTimerFire)

(***************************************************************************)
(* SpecTrack: pushes that overlap in time.  Each push runs                 *)
(* syncGlobalPrompt / syncProjectPrompt as the operation of                *)
(* trackSyncOperation(rulesPath, operation); the watcher of a rules file   *)
(* returns at once when isSyncing(rulesPath).                              *)
(***************************************************************************)
\* the user selects a stored record of category c with content t: the rules
\* path is resolved, trackSyncOperation adds it and the operation runs up to
\* the write
TrkStart(i, c, t) ==
    /\ dpush[i].pc = "idle"
    /\ \A h \in 1..(i-1) : dpush[h].pc # "idle"
    /\ t \in LoadedContents(c)
    /\ RulesPath(ide, c) # NoPath
    /\ syncOperations' = TrackAdd(syncOperations, RulesPath(ide, c))
    /\ fs' = EnsureFile(fs, ide, c)
    /\ dpush' = [dpush EXCEPT ![i] =
                   [pc |-> "write", type |-> c, content |-> t]]
    /\ UNCHANGED <<ide, notify, store, clock, edits, processed>>
    /\ UNCHANGED notTrack

\* fs.writeFile(targetPath, prompt.content) opens the file, which truncates it
TrkWriteBegin(i, outcome) ==
    /\ dpush[i].pc = "write"
    /\ outcome \in OpenOutcomes(RulesPath(ide, dpush[i].type))
    /\ IF outcome = "ENOENT"
       THEN /\ dpush' = [dpush EXCEPT ![i].pc = "threw"]
            /\ UNCHANGED <<fs, notify>>
       ELSE /\ dpush' = [dpush EXCEPT ![i].pc = "writing"]
            /\ fs' = [fs EXCEPT ![dpush[i].type] = ""]
            /\ notify' = [notify EXCEPT ![dpush[i].type] = TRUE]
    /\ UNCHANGED <<ide, store, clock, edits, syncOperations, processed>>
    /\ UNCHANGED notTrack

\* the write completes and the operation returns
TrkWriteEnd(i) ==
    /\ dpush[i].pc = "writing"
    /\ fs' = [fs EXCEPT ![dpush[i].type] = dpush[i].content]
    /\ notify' = [notify EXCEPT ![dpush[i].type] = TRUE]
    /\ dpush' = [dpush EXCEPT ![i].pc = "returned"]
    /\ UNCHANGED <<ide, store, clock, edits, syncOperations, processed>>
    /\ UNCHANGED notTrack

\* the write fails and the operation throws
TrkWriteFail(i) ==
    /\ dpush[i].pc = "writing"
    /\ dpush' = [dpush EXCEPT ![i].pc = "threw"]
    /\ UNCHANGED <<envVars, syncOperations, processed>>
    /\ UNCHANGED notTrack

\* finally block of trackSyncOperation
TrkFinally(i) ==
    /\ dpush[i].pc \in {"returned", "threw"}
    /\ syncOperations' = TrackFinally(syncOperations,
                                      RulesPath(ide, dpush[i].type),
                                      dpush[i].pc = "threw")
    /\ dpush' = [dpush EXCEPT ![i].pc =
                   IF dpush[i].pc = "threw" THEN "failed" ELSE "done"]
    /\ UNCHANGED <<envVars, processed>>
    /\ UNCHANGED notTrack

\* the watcher is notified of a change of the rules file of c and returns at
\* once when the path is being synced
TrkWatch(c) ==
    /\ notify[c]
    /\ notify' = [notify EXCEPT ![c] = FALSE]
    /\ processed' = IF isSyncing(RulesPath(ide, c)) THEN processed
                    ELSE processed \cup {c}
    /\ UNCHANGED <<ide, fs, store, clock, edits, syncOperations, dpush>>
    /\ UNCHANGED notTrack

\* the prompt directory holds two records of each category
InitTrack ==
    /\ ide \in IDEType
    /\ fs = [c \in Category |-> Missing]
    /\ notify = [c \in Category |-> FALSE]
    /\ store = [c \in Category |-> [k \in Ids |-> IF k = 1 THEN "A"
                                                     ELSE IF k = 2 THEN "B"
                                                     ELSE Absent]]
    /\ clock = 0
    /\ edits = 0
    /\ syncOperations = {}
    /\ InitSetVars
    /\ InitEmitVars
    /\ InitLockVars
    /\ InitDocVars
    /\ InitStoreIdle

NextTrack ==
    \/ \E i \in 1..MaxDocPush, c \in Category, t \in Content : TrkStart(i, c, t)
    \/ \E i \in 1..MaxDocPush, o \in {"ok", "ENOENT"} : TrkWriteBegin(i, o)
    \/ \E i \in 1..MaxDocPush : TrkWriteEnd(i)
    \/ \E i \in 1..MaxDocPush : TrkWriteFail(i)
    \/ \E i \in 1..MaxDocPush : TrkFinally(i)
    \/ \E c \in Category : TrkWatch(c)

SpecTrack == InitTrack /\ [][NextTrack]_vars

(***************************************************************************)
(* SpecPick: the user selects stored records in the quick pick of a status *)
(* bar item; onDidAccept pushes the record and shows a message.            *)
(***************************************************************************)
\* onDidAccept for a record of category c with content t, with or without
\* an open workspace folder: a global record is pushed by syncGlobalPrompt, a
\* project record by syncProjectPrompt when there is a workspace root, and
\* otherwise the code goes straight on to the success message
PickStart(i, c, t, root) ==
    /\ dpush[i].pc = "idle"
    /\ \A h \in 1..(i-1) : dpush[h].pc # "idle"
    /\ t \in LoadedContents(c)
    /\ IF c = "project" /\ ~root
       THEN /\ dpush' = [dpush EXCEPT ![i] =
                           [pc |-> "success", type |-> c, content |-> t]]
            /\ fs' = fs
       ELSE IF RulesPath(ide, c) = NoPath
       THEN /\ dpush' = [dpush EXCEPT ![i] =
                           [pc |-> "threw", type |-> c, content |-> t]]
            /\ fs' = fs
       ELSE /\ dpush' = [dpush EXCEPT ![i] =
                           [pc |-> "write", type |-> c, content |-> t]]
            /\ fs' = EnsureFile(fs, ide, c)
    /\ UNCHANGED <<ide, notify, store, clock, edits, syncOperations, processed>>
    /\ UNCHANGED notTrack

\* after the await: showInformationMessage("... has been synced to IDE"), or
\* in the catch showErrorMessage("Failed to sync prompt: ...")
PickMessage(i) ==
    /\ dpush[i].pc \in {"returned", "threw"}
    /\ dpush' = [dpush EXCEPT ![i].pc =
                   IF dpush[i].pc = "threw" THEN "error" ELSE "success"]
    /\ UNCHANGED <<envVars, syncOperations, processed>>
    /\ UNCHANGED notTrack

NextPick ==
    \/ \E i \in 1..MaxDocPush, c \in Category, t \in Content, root \in BOOLEAN :
          PickStart(i, c, t, root)
    \/ \E i \in 1..MaxDocPush, o \in {"ok", "ENOENT"} : TrkWriteBegin(i, o)
    \/ \E i \in 1..MaxDocPush : TrkWriteEnd(i)
    \/ \E i \in 1..MaxDocPush : TrkWriteFail(i)
    \/ \E i \in 1..MaxDocPush : PickMessage(i)

SpecPick == InitTrack /\ [][NextPick]_vars

(***************************************************************************)
(* SpecWatch: the watchers DocumentWatcher.start registers (emitter        *)
(* revision). rulesWatch.active counts, per rules path, the watchers that  *)
(* were created and not disposed; rulesWatch.listeners counts the          *)
(* onDidChangeWorkspaceFolders listeners; rulesWatch.invoked is the number *)
(* of handleFileChange invocations the latest external change caused.      *)
(***************************************************************************)
\* watchRulesFile(rulesPath, type): a new watcher on the path is created and
\* pushed to disposables; no watcher is looked up or disposed
watchRulesFile(active, p) == [active EXCEPT ![p] = @ + 1]

\* start(): watches the global rules path, the project rules path when a
\* workspace folder r is open, and registers a workspace-folder listener.
\* The folder open at the first start is chosen here.
WatStartAll(r) ==
    /\ rulesWatch.calls < MaxWatchCalls
    /\ rulesWatch.listeners > 0 => r = rulesWatch.root
    /\ rulesWatch' =
         [rulesWatch EXCEPT
            !.root = r,
            !.calls = @ + 1,
            !.listeners = @ + 1,
            !.active = IF r = "none"
                       THEN watchRulesFile(@, "global")
                       ELSE watchRulesFile(watchRulesFile(@, "global"), r)]
    /\ UNCHANGED <<envVars, syncOperations, setVars, emitVars, lockVars,
                   codeVars, docVars, storeVars, disposed>>

\* the workspace folders change and r is the first folder afterwards (r may
\* be the folder that was first before): every registered listener calls
\* watchRulesFile on the project rules path of r
RECURSIVE watchTimes(_, _, _)
watchTimes(active, p, n) ==
    IF n = 0 THEN active ELSE watchTimes(watchRulesFile(active, p), p, n - 1)

WatFolders(r) ==
    /\ rulesWatch.calls < MaxWatchCalls
    /\ rulesWatch.listeners > 0
    /\ rulesWatch' =
         [rulesWatch EXCEPT
            !.root = r,
            !.calls = @ + 1,
            !.active = IF r = "none" THEN @
                       ELSE watchTimes(@, r, rulesWatch.listeners)]
    /\ UNCHANGED <<envVars, syncOperations, setVars, emitVars, lockVars,
                   codeVars, docVars, storeVars, disposed>>

\* one external change of the rules file at path p: every active watcher on
\* the path calls handleFileChange
WatExternalChange(p) ==
    /\ rulesWatch.active[p] > 0
    /\ rulesWatch' = [rulesWatch EXCEPT !.invoked = rulesWatch.active[p]]
    /\ UNCHANGED <<envVars, syncOperations, setVars, emitVars, lockVars,
                   codeVars, docVars, storeVars, disposed>>

NextWatch ==
    \/ \E r \in Roots : WatStartAll(r)
    \/ \E r \in Roots : WatFolders(r)
    \/ \E p \in WatchPaths : WatExternalChange(p)

SpecWatch == InitTrack /\ [][NextWatch]_vars

(***************************************************************************)
(* SpecStore: PromptManager as a store of prompt files                     *)
(*   "toml": promptManager.ts, first revision (TOML.stringify)             *)
(*   "hand": promptManager.ts, second revision (template string)           *)
(*   "p5"  : the revision with uuid ids whose loader skips unreadable files *)
(***************************************************************************)
\* files of the directory of category c
Files(c) == {f \in FileIds : dir[c][f] # NoFile}

\* loadPrompts: one entry per readable file; in "toml" and "hand" a throw in
\* any file's callback rejects Promise.all and the catch returns []
LoadPrompts(rev, c) ==
    IF rev = "p5"
    THEN {[file |-> f, prompt |-> ParsePrompt(dir[c][f])] :
              f \in {g \in Files(c) : ~ParseThrows(dir[c][g])}}
    ELSE IF \E f \in Files(c) : ParseThrows(dir[c][f])
         THEN {}
         ELSE {[file |-> f, prompt |-> ParsePrompt(dir[c][f])] : f \in Files(c)}

Returned(op, c, id, out, list) ==
    /\ lastOp' = [op |-> op, type |-> c, id |-> id, out |-> out, list |-> list]
    /\ nops' = nops + 1
Done(op, c, id, out) == Returned(op, c, id, out, {})

\* variant: the file is opened with the flag that fails on an existing file,
\* so an existing file keeps its text
WriteRecordIfNew(c, id, R) ==
    /\ dir' = [dir EXCEPT ![c][id] =
                 IF @ = NoFile THEN Serialize(pmRev, R, tomlStyle) ELSE @]
    /\ saved' = [saved EXCEPT ![c] = {r \in @ : r.meta.id # R.meta.id} \cup {R}]
\* savePrompt(R): the file <id>.toml of R's category gets R's text
WriteRecord(c, id, R) ==
    /\ dir' = [dir EXCEPT ![c][id] = Serialize(pmRev, R, tomlStyle)]
    /\ saved' = [saved EXCEPT ![c] = {r \in @ : r.meta.id # R.meta.id} \cup {R}]

\* the user saves the record they work with
StSavePrompt(c) ==
    /\ nops < MaxOps
    /\ WriteRecord(c, "f1", Rec(c, "f1", input.name, input.content))
    /\ Done("save", c, "f1", "ok")
    /\ UNCHANGED <<ide, clock, pmRev, tomlStyle, input, rulesText>>
    /\ UNCHANGED notStore

OtherCategory(c) == IF c = "global" THEN "project" ELSE "global"

\* a file the user put into the directory with an editor: text that is no
\* prompt file, or a readable file whose type field names the other category
StUserFile(c, kind) ==
    /\ nops < MaxOps
    /\ dir[c]["u1"] = NoFile
    /\ dir' = [dir EXCEPT ![c]["u1"] =
                 IF kind = "garbage" THEN <<"a">>
                 ELSE HandFormat(Rec(OtherCategory(c), "u1", input.name,
                                     input.content))]
    /\ Done("user", c, "u1", kind)
    /\ UNCHANGED <<ide, clock, pmRev, tomlStyle, input, saved, rulesText>>
    /\ UNCHANGED notStore

\* importFromIdeRules (how = "saved"), or importFromIdeRulesUnsaved followed
\* by the caller's savePrompt (how = "unsaved")
StImport(c, how) ==
    /\ nops < MaxOps
    /\ pmRev # "hand"
    /\ LET text == IF CreatesFile(ide, c) /\ rulesText[c] = NoFile
                   THEN <<>> ELSE rulesText[c]
           id == ImportedId(ide, how, clock)
           R == Rec(c, id, PlainName, text)
       IN  /\ rulesText' = [rulesText EXCEPT ![c] = text]
           /\ IF text = NoFile
              THEN /\ Done("import", c, id, "none")
                   /\ UNCHANGED <<dir, saved>>
              ELSE /\ WriteRecord(c, id, R)
                   /\ Done("import", c, id, "ok")
    /\ UNCHANGED <<ide, clock, pmRev, tomlStyle, input>>
    /\ UNCHANGED notStore

\* createPrompt
StCreate(c) ==
    /\ nops < MaxOps
    /\ LET id == IF pmRev = "p5" THEN Uuid(nops + 1) ELSE Timestamp(clock)
           R == Rec(c, id, PlainName, IF pmRev = "p5" THEN <<>> ELSE Placeholder)
       IN  /\ WriteRecord(c, id, R)
           /\ Done("create", c, id, "ok")
    /\ UNCHANGED <<ide, clock, pmRev, tomlStyle, input, rulesText>>
    /\ UNCHANGED notStore

\* a second passes
StTick ==
    /\ clock < MaxClock
    /\ clock' = clock + 1
    /\ UNCHANGED <<ide, storeVars>>
    /\ UNCHANGED notStore

\* loadPrompts(c)
StLoadPrompts(c) ==
    /\ nops < MaxOps
    /\ Returned("load", c, "", "ok", LoadPrompts(pmRev, c))
    /\ UNCHANGED <<ide, clock, pmRev, tomlStyle, input, dir, saved, rulesText>>
    /\ UNCHANGED notStore

\* the rules watcher's onDidChange callback up to its decision: read the
\* rules file, load the prompts, look for a prompt with that content
StClassify(c) ==
    /\ nops < MaxOps
    /\ pmRev # "hand"
    /\ Done("classify", c, "",
            IF rulesText[c] = NoFile THEN "error"
            ELSE IF \E e \in LoadPrompts(pmRev, c) : e.prompt.content = rulesText[c]
                 THEN "known" ELSE "novel")
    /\ UNCHANGED <<ide, clock, pmRev, tomlStyle, input, dir, saved, rulesText>>
    /\ UNCHANGED notStore

\* records the user works with: any name with a one-character content, or a
\* one-character name with any content
Inputs ==
    {[name |-> n, content |-> <<"a">>] : n \in TextsUpTo(MaxNameLen)}
    \cup {[name |-> <<"a">>, content |-> t] : t \in TextsUpTo(MaxLen)}

InitStore ==
    /\ ide = "windsurf"
    /\ fs = [c \in Category |-> Missing]
    /\ notify = [c \in Category |-> FALSE]
    /\ store = [c \in Category |-> [k \in Ids |-> Absent]]
    /\ clock = 0
    /\ edits = 0
    /\ syncOperations = {}
    /\ InitSetVars
    /\ InitEmitVars
    /\ InitLockVars
    /\ InitDocVars
    /\ pmRev \in Revisions
    /\ tomlStyle \in IF pmRev = "hand" THEN {"basic"} ELSE {"basic", "multiline"}
    /\ input \in Inputs
    /\ dir = [c \in Category |-> [f \in FileIds |-> NoFile]]
    /\ saved = [c \in Category |-> {}]
    /\ rulesText \in {[c \in Category |-> NoFile], [c \in Category |-> input.content]}
    /\ lastOp = NoOp
    /\ nops = 0

NextStore ==
    \/ \E c \in Category : StSavePrompt(c)
    \/ \E c \in Category, kind \in {"garbage", "foreign"} : StUserFile(c, kind)
    \/ \E c \in Category, how \in {"saved", "unsaved"} : StImport(c, how)
    \/ \E c \in Category : StCreate(c)
    \/ StTick
    \/ \E c \in Category : StLoadPrompts(c)
    \/ \E c \in Category : StClassify(c)

SpecStore == InitStore /\ [][NextStore]_vars


(***************************************************************************)
(* Claims checked under SpecSet                                            *)
(***************************************************************************)
\* a save handler whose push has resolved the rules path and is writing it
SaveWriting(i) == save[i].pc \in {"write", "writing"}

\* C1 (no self-trigger): as long as no external edit of any rules file has
\* happened, the change handler never opens the save-as-new-prompt dialog,
\* whether the notification of a push's write arrives during the write or
\* after it.
C1_NoSelfTrigger ==
    edits = 0 => \A j \in 1..MaxChg : chg[j].pc # "dialog"

\* a save-as-new-prompt dialog for the rules file of category c is open
PendingUserDecision(c) ==
    \E j \in 1..MaxChg : chg[j].pc = "dialog" /\ chg[j].type = c
\* a push to the rules file of category c is in flight
PushingTo(c) == \E i \in 1..MaxSave : SaveWriting(i) /\ save[i].type = c

\* C21 (Suppressed and PendingUserDecision exclude each other): at no
\* instant is a push to a rules path in flight while a save-as-new-prompt
\* dialog for a detected edit of that path is open.
C21_NoDialogWhilePushing ==
    \A c \in Category : ~(PushingTo(c) /\ PendingUserDecision(c))

\* C22 (no read during a write): the change handler's read of the document
\* text (document.getText()) never happens while the write of a push to the
\* same rules file has begun and not yet completed.
C22_NoReadDuringWrite ==
    [][\A j \in 1..MaxChg :
          (chg[j].pc = "compare" /\ chg'[j].pc # "compare")
          => ~\E i \in 1..MaxSave :
                 save[i].pc = "writing" /\ save[i].type = chg[j].type]_vars

\* C25 (ignoring the dialog has no side effect): no step the change handler
\* takes between the arrival of the notification and the answer "Ignore", or
\* the dismissal of the dialog, changes the prompt store, a rules file or
\* the set of paths being synced.
C25_IgnoreNoSideEffect ==
    [][\A j \in 1..MaxChg :
          (chg'[j] # chg[j] /\ chg[j].pc # "import" /\ chg'[j].pc # "import")
          => /\ store' = store
             /\ fs' = fs
             /\ syncOperations' = syncOperations]_vars

\* C3 (the in-flight path is the rules path of the push): while the save
\* handler's sync of a prompt to the rules file is running, isSyncing holds
\* of that rules path.
C3_RulesPathInFlight ==
    \A i \in 1..MaxSave :
        SaveWriting(i) => isSyncing(RulesPath(ide, save[i].type))

(***************************************************************************)
(* Claims checked under SpecEmit                                           *)
(***************************************************************************)
PushInFlight(i) == push[i].pc \in {"write", "writing", "fire", "finally"}
FileTarget(i, c) == RulesPath(i, c) \notin {NoPath, CursorSettings}
NumEvents(c) == Cardinality({e \in events : e.type = c})

\* C4 (suppression self-heals): a path is in the in-flight set only while a
\* trackSyncOperation call on it is running, so after a call has returned or
\* thrown nothing keeps its path suppressed; when a call ends, its path is
\* not in the set and a failed operation ends the call as a failure.
C4_SetHoldsOnlyRunning ==
    \A p \in syncOperations :
        \E i \in 1..MaxPush :
            PushInFlight(i) /\ RulesPath(ide, push[i].type) = p
C4_CallEndReleases ==
    \A i \in 1..MaxPush :
        (push[i].pc = "finally" /\ push'[i].pc # "finally") =>
            /\ RulesPath(ide, push[i].type) \notin syncOperations'
            /\ push[i].err => push'[i].pc = "failed"
C4_SelfHeals == [](C4_SetHoldsOnlyRunning) /\ [][C4_CallEndReleases]_vars
\* a push failed in its write, the set is empty again and the watcher
\* processes a later notification of that path
C4_Witness ==
    \E i \in 1..MaxPush, j \in 1..MaxWat :
        /\ push[i].pc = "failed" /\ push[i].calls > 0
        /\ syncOperations = {}
        /\ wat[j].pc = "read" /\ wat[j].type = push[i].type

\* C8 (exactly one event per successful push): without external edits and
\* without failed pushes, the events of a category are exactly those fired
\* by its pushes (the file watcher adds none for the same write), every
\* finished successful push has fired one, and the content of the event of
\* a push is the content of the pushed record.
C8_ExactlyOneEvent ==
    (edits = 0 /\ \A i \in 1..MaxPush : ~push[i].err) =>
        /\ \A c \in Category :
              NumEvents(c) =
                  Cardinality({i \in 1..MaxPush : push[i].type = c /\ push[i].fired})
        /\ \A i \in 1..MaxPush : push[i].pc = "done" => push[i].fired
        /\ \A e \in events :
              e.by > 0 => e.content = push[e.by].content

\* C9 (event after the write): an event fired by a push comes from a push
\* whose write has returned successfully, and a push whose operation threw
\* has fired no event.
C9_EventAfterWrite ==
    /\ \A e \in events : e.by > 0 => push[e.by].wrote /\ ~push[e.by].err
    /\ \A i \in 1..MaxPush : push[i].err => ~push[i].fired
\* a push has fired its event after its write returned
C9_Witness ==
    \E i \in 1..MaxPush :
        /\ push[i].fired /\ push[i].wrote /\ ~push[i].err
        /\ \E e \in events : e.by = i /\ e.type = push[i].type

\* C10 (Scenario D): a push for an IDE/category combination without a
\* file-based rules target ends with an error, calls no file write and
\* fires no event.
C10_NoTargetNoWrite ==
    \A i \in 1..MaxPush :
        (push[i].pc \in {"done", "failed"} /\ ~FileTarget(ide, push[i].type)) =>
            /\ push[i].pc = "failed"
            /\ push[i].calls = 0
            /\ ~push[i].fired

\* C11 (effect and frame of a push): the step that completes the write of
\* a push leaves the rules file of its category with exactly the content of
\* the pushed record, and no step of a push changes the rules file of the
\* other category or any stored prompt record.
C11_WriteCompletes ==
    \A i \in 1..MaxPush :
        (push[i].pc = "writing" /\ push'[i].wrote) =>
            fs'[push[i].type] = push[i].content
C11_PushFrame ==
    push' # push =>
        /\ store' = store
        /\ \A c \in Category :
              (\A i \in 1..MaxPush : push'[i] # push[i] => push'[i].type # c)
                  => fs'[c] = fs[c]
C12_MismatchNeverWrites ==
    \A i \in 1..MaxPush :
        push[i].rtype # push[i].type =>
            /\ push[i].pc = "failed"
            /\ push[i].calls = 0 /\ ~push[i].wrote /\ ~push[i].fired
C12_MismatchStep ==
    \A i \in 1..MaxPush :
        (push[i].pc = "idle" /\ push'[i].rtype # push'[i].type) =>
            fs' = fs /\ syncOperations' = syncOperations
C12_TypeEnforced == [](C12_MismatchNeverWrites) /\ [][C12_MismatchStep]_vars
\* a push with the wrong type has failed in an IDE that has a rules file for
\* the category, and that file was not created
C12_Witness ==
    \E i \in 1..MaxPush :
        /\ push[i].pc = "failed" /\ push[i].rtype # push[i].type
        /\ CreatesFile(ide, push[i].type)
        /\ fs[push[i].type] = Missing

\* C26 (a failing write is reported, not retried): a push calls
\* fs.writeFile for the record's content at most once; when that call has
\* ended without completing the write, the push carries the error to its
\* caller and ends as failed, never as done.
C26_FailureReportedOnce ==
    \A i \in 1..MaxPush :
        /\ push[i].calls <= 1
        /\ (push[i].calls = 1 /\ ~push[i].wrote /\ push[i].pc # "writing")
               => push[i].err /\ push[i].pc \in {"finally", "failed"}
        /\ push[i].pc = "done" => push[i].wrote /\ ~push[i].err
\* a push of a record of the right category has called fs.writeFile once,
\* the write failed after the file was opened, and the push has failed
C26_Witness ==
    \E i \in 1..MaxPush :
        /\ push[i].pc = "failed" /\ push[i].err
        /\ push[i].rtype = push[i].type
        /\ push[i].calls = 1 /\ ~push[i].wrote
        /\ fs[push[i].type] = ""

\* C30 (resolving a rules path creates a missing file, empty, and leaves an
\* existing one alone): on the step of a push in which getRulesPath returns
\* a file path, the file exists afterwards; it is empty when it did not
\* exist before, and has the content it had when it existed.
C30_ResolveStep ==
    \A i \in 1..MaxPush, c \in Category :
        (/\ push[i].pc = "idle" /\ push'[i].pc = "write" /\ push'[i].type = c
         /\ CreatesFile(ide, c))
        => /\ fs'[c] # Missing
           /\ fs[c] = Missing => fs'[c] = ""
           /\ fs[c] # Missing => fs'[c] = fs[c]
C30_CreatesOnlyMissing == [][C30_ResolveStep]_vars
\* a push has resolved the path of a rules file that nothing had written
\* before: the file exists and is empty, the other rules file is missing
C30_Witness ==
    \E i \in 1..MaxPush :
        /\ push[i].pc = "write"
        /\ CreatesFile(ide, push[i].type)
        /\ edits = 0
        /\ fs[push[i].type] = ""
        /\ \A c \in Category : c # push[i].type => fs[c] = Missing

\* no push is running, no handler is running and no notification waits
EmitQuiescent ==
    /\ \A i \in 1..MaxPush : push[i].pc \in {"idle", "done", "failed"}
    /\ \A j \in 1..MaxWat : wat[j].pc \in {"idle", "done"}
    /\ \A c \in Category : ~notify[c]
\* C31 (the status bar shows the active rules content): when no push and no
\* handler is running and every notification was delivered, the tooltip of
\* each category's item is the text shown for the current content of that
\* category's rules file.
C31_TooltipIsCurrent ==
    EmitQuiescent
    => \A c \in Category : tooltip[c] = Shown(ReadOrEmpty(fs, c))

(***************************************************************************)
(* Claims checked under SpecLock                                           *)
(***************************************************************************)
\* the path is suppressed for the handlers of the global-lock design
Suppressed(p) == syncLock \/ p \in recentlySyncedFiles
LkWriting(i) == lsave[i].pc \in {"write", "writing"}
\* a save event holds the lock or its handler has not finished
LkHandling(i) == lsave[i].pc \in {"locked", "dialog", "write", "writing"}

\* C2 (suppress before the write, lift after it): whenever the write of a
\* push to a rules file has begun and not completed, the target rules path
\* is suppressed.
C2_SuppressedDuringWrite ==
    \A i \in 1..MaxLkSave :
        LkWriting(i) => Suppressed(RulesPath(ide, lsave[i].type))

\* C7 (the lock serializes sync operations): from the acquisition of the
\* lock by a save event until its handler has finished, dialog and write
\* included, syncLock is true, and no second save event is being handled.
C7_LockHeldWhileHandling ==
    /\ \A i \in 1..MaxLkSave : LkHandling(i) => syncLock
    /\ Cardinality({i \in 1..MaxLkSave : LkHandling(i)}) <= 1

\* C14 (novel edits are offered): when the change handler runs for a rules
\* document that is not suppressed and whose text equals the content of no
\* stored record of its category, it opens the save-as-new-prompt dialog,
\* whatever the kind of edit and the text.
C14_NovelOffered ==
    [][\A j \in 1..MaxChg :
          (/\ chg[j].pc = "idle"
           /\ chg'[j].pc \notin {"idle", "suppressed"}
           /\ chg'[j].text \notin LoadedContents(chg'[j].type))
          => chg'[j].pc = "dialog"]_vars

\* C32 (teardown cancels outstanding work): after dispose() no timer of
\* acquireSyncLock or markSynced is pending, and no save or change handler
\* starts for a further event.
C32_NoTimerAfterDispose ==
    disposed => /\ ~syncTimeout
                /\ \A c \in Category : markTimers[c] = 0
C32_NoHandlerAfterDispose ==
    disposed =>
        /\ \A i \in 1..MaxLkSave : lsave[i].pc = "idle" => lsave'[i].pc = "idle"
        /\ \A j \in 1..MaxChg : chg[j].pc = "idle" => chg'[j].pc = "idle"
C32_TeardownCancels ==
    [](C32_NoTimerAfterDispose) /\ [][C32_NoHandlerAfterDispose]_vars

\* C34 (a mark lasts a full window after the latest markSynced): timers of
\* one delay fire in the order they were set, so while any timer of a path
\* is pending the timer of its latest mark is pending; as long as that is
\* so, the path is in recentlySyncedFiles.
C34_MarkedUntilLatestTimer ==
    \A c \in Category :
        markTimers[c] > 0 => RulesPath(ide, c) \in recentlySyncedFiles

(***************************************************************************)
(* Claims checked under SpecDoc                                            *)
(***************************************************************************)
DocWriteInFlight(i) == dpush[i].pc \in {"write", "writing"}

\* C5 (time-boxed lock liveness): whenever syncLock is true it eventually
\* becomes false, also when the acquirer never calls releaseSyncLock
\* because its write never completes; a held lock always has its timer
\* pending.
C5_LockEventuallyFree ==
    /\ [](syncLock => syncTimeout)
    /\ (syncLock ~> ~syncLock)
\* a push acquired the lock, its write has not completed, no other push has
\* run, and the lock is free again: the timer released it
C5_Witness ==
    \E i \in 1..MaxDocPush :
        /\ dpush[i].pc = "writing"
        /\ \A h \in 1..MaxDocPush : h # i => dpush[h].pc = "idle"
        /\ ~syncLock /\ ~syncTimeout

\* C35 (lock and timer stay paired): the lock is held only while an
\* auto-release timer is pending; at most one such timer is pending, and it
\* is the one whose handle syncTimeout holds, set by the latest
\* acquireSyncLock; a step in which the lock is released by a timer is a
\* step of that timer.
C35_Paired ==
    /\ syncLock => lockTimers > 0
    /\ lockTimers <= 1
    /\ lockTimers = 1 => syncTimeout
C35_TimerStep ==
    (syncLock /\ ~syncLock' /\ dpush' = dpush) => (lockTimers = 1 /\ syncTimeout)
C35_LockTimerPaired == [](C35_Paired) /\ [][C35_TimerStep]_vars
\* the second push acquired the lock while the first, which acquired it
\* before, is still writing: one timer is pending
C35_Witness ==
    /\ dpush[1].pc = "writing" /\ dpush[2].pc = "write"
    /\ syncLock /\ syncTimeout /\ lockTimers = 1

\* C6 (documented usage keeps own writes from the watcher): syncLock is true
\* at every instant at which the write of some push is in flight, and the
\* watcher skips every notification (all of them come from pushes: this
\* specification has no external edit).
C6_LockHeldDuringWrites ==
    /\ \A i \in 1..MaxDocPush : DocWriteInFlight(i) => syncLock
    /\ processed = {}

(***************************************************************************)
(* SpecFiles: savePrompt, deletePrompt and loadPrompts called one after    *)
(* the other on records of two ids per category.                           *)
(***************************************************************************)
\* ids and texts of the records saved
KeyIds == {"f1", "t0"}
KeyNames == {<<>>, <<"a">>}
KeyContents == {<<"a">>, <<"a", "NL", "a">>}

\* savePrompt(R) with R.meta = (c, id, n) and R.content = t; out tells
\* whether the file existed
StSave(c, id, n, t) ==
    /\ nops < MaxOps
    /\ WriteRecord(c, id, Rec(c, id, n, t))
    /\ Done("save", c, id, IF dir[c][id] = NoFile THEN "created" ELSE "replaced")
    /\ UNCHANGED <<ide, clock, pmRev, tomlStyle, input, rulesText>>
    /\ UNCHANGED notStore

\* variant: a missing file is no error
StDeleteForce(c, id) ==
    /\ nops < MaxOps
    /\ dir' = [dir EXCEPT ![c][id] = NoFile]
    /\ saved' = [saved EXCEPT ![c] = {r \in @ : r.meta.id # <<id>>}]
    /\ Done("delete", c, id, "ok")
    /\ UNCHANGED <<ide, clock, pmRev, tomlStyle, input, rulesText>>
    /\ UNCHANGED notStore
\* deletePrompt(R) with R.meta = (c, id, ...): fs.unlink of <id>.toml; the
\* error of a missing file is logged and thrown again
StDelete(c, id) ==
    /\ nops < MaxOps
    /\ IF dir[c][id] = NoFile
       THEN /\ Done("delete", c, id, "error")
            /\ UNCHANGED <<dir, saved>>
       ELSE /\ dir' = [dir EXCEPT ![c][id] = NoFile]
            /\ saved' = [saved EXCEPT ![c] = {r \in @ : r.meta.id # <<id>>}]
            /\ Done("delete", c, id, "ok")
    /\ UNCHANGED <<ide, clock, pmRev, tomlStyle, input, rulesText>>
    /\ UNCHANGED notStore

InitFiles ==
    /\ ide = "windsurf"
    /\ fs = [c \in Category |-> Missing]
    /\ notify = [c \in Category |-> FALSE]
    /\ store = [c \in Category |-> [k \in Ids |-> Absent]]
    /\ clock = 0
    /\ edits = 0
    /\ syncOperations = {}
    /\ InitSetVars
    /\ InitEmitVars
    /\ InitLockVars
    /\ InitDocVars
    /\ pmRev \in Revisions
    /\ tomlStyle \in IF pmRev = "hand" THEN {"basic"} ELSE {"basic", "multiline"}
    /\ input = [name |-> <<>>, content |-> <<>>]
    /\ dir = [c \in Category |-> [f \in FileIds |-> NoFile]]
    /\ saved = [c \in Category |-> {}]
    /\ rulesText = [c \in Category |-> NoFile]
    /\ lastOp = NoOp
    /\ nops = 0

NextFiles ==
    \/ \E c \in Category, id \in KeyIds, n \in KeyNames, t \in KeyContents :
          StSave(c, id, n, t)
    \/ \E c \in Category, id \in KeyIds : StDelete(c, id)
    \/ \E c \in Category : StLoadPrompts(c)

SpecFiles == InitFiles /\ [][NextFiles]_vars

(***************************************************************************)
(* Claims checked under SpecFiles                                          *)
(***************************************************************************)
\* files other than <id>.toml of category c are the same after the step
OtherFilesKept(c, id) ==
    \A d \in Category, f \in FileIds :
        (d # c \/ f # id) => dir'[d][f] = dir[d][f]

\* C28 (delete is permanent and reports a missing target): deletePrompt of a
\* record whose file exists succeeds, and after it the file is gone and no
\* file loadPrompts of the category can read holds that id, while every
\* other file is as before; deletePrompt of a record whose file does not
\* exist fails and changes no file; and a file that is gone comes back only
\* by a later save of the same key.
C28_DeleteStep ==
    \A c \in Category, id \in FileIds :
       (/\ lastOp'.op = "delete" /\ nops' = nops + 1
        /\ lastOp'.type = c /\ lastOp'.id = id)
       =>  /\ lastOp'.out = IF dir[c][id] = NoFile THEN "error" ELSE "ok"
           /\ lastOp'.out = "error" => dir' = dir
           /\ lastOp'.out = "ok" =>
                 /\ dir'[c][id] = NoFile
                 /\ \A f \in FileIds :
                       (dir'[c][f] # NoFile /\ ~ParseThrows(dir'[c][f]))
                       => ParsePrompt(dir'[c][f]).meta.id # <<id>>
                 /\ OtherFilesKept(c, id)
C28_StaysDeleted ==
    \A c \in Category, id \in FileIds :
        (dir[c][id] = NoFile /\ dir'[c][id] # NoFile)
        => lastOp'.op = "save" /\ lastOp'.type = c /\ lastOp'.id = id
C28_Delete == [][C28_DeleteStep /\ C28_StaysDeleted]_vars
\* a record was deleted with success while the file of another record of
\* the category is still in the directory
C28_Witness ==
    /\ lastOp.op = "delete" /\ lastOp.out = "ok"
    /\ dir[lastOp.type][lastOp.id] = NoFile
    /\ Files(lastOp.type) # {}

\* C29 (save is an upsert by category and id): after savePrompt(R) the file
\* of R's key holds the text of R and nothing of an earlier record of that
\* key, the key has one stored record, every other file is as before, and
\* saving a record whose text the file already holds changes no file.
C29_SaveStep ==
    (lastOp'.op = "save" /\ nops' = nops + 1)
    => LET c == lastOp'.type
           id == lastOp'.id
           Rs == {r \in saved'[c] : r.meta.id = <<id>>}
       IN  /\ Cardinality(Rs) = 1
           /\ \A R \in Rs :
                 /\ dir'[c][id] = Serialize(pmRev, R, tomlStyle)
                 /\ R \in saved[c] => dir' = dir
           /\ OtherFilesKept(c, id)
C29_Upsert == [][C29_SaveStep]_vars
\* a save replaced the file of a key with the text of a record, and the
\* file of the other key of the category is in the directory
C29_Witness ==
    /\ lastOp.op = "save" /\ lastOp.out = "replaced"
    /\ Files(lastOp.type) = KeyIds
    /\ nops = MaxOps

(***************************************************************************)
(* Claims checked under SpecTrack                                          *)
(***************************************************************************)
\* C23 (suppression is per path): the watcher of a rules file skips a
\* notification exactly when that file's own path is in the in-flight set,
\* whatever other paths the set holds; and a step of a push changes the
\* membership of no path but the one the push writes.
C23_WatchOwnPathOnly ==
    \A c \in Category :
        (notify[c] /\ ~notify'[c])
        => (c \in processed' <=>
               (c \in processed \/ RulesPath(ide, c) \notin syncOperations))
C23_PushOwnPathOnly ==
    \A i \in 1..MaxDocPush :
        dpush'[i] # dpush[i]
        => \A q \in Category :
              RulesPath(ide, q) # RulesPath(ide, dpush'[i].type)
              => (RulesPath(ide, q) \in syncOperations'
                    <=> RulesPath(ide, q) \in syncOperations)
C23_PerPath == [][C23_WatchOwnPathOnly /\ C23_PushOwnPathOnly]_vars
\* the first push is writing its rules file, whose path is in the set; the
\* second push, to the other category, started later and is done, and the
\* notification of its write was processed
C23_Witness ==
    /\ dpush[1].pc = "writing"
    /\ RulesPath(ide, dpush[1].type) \in syncOperations
    /\ dpush[2].pc = "done"
    /\ dpush[2].type # dpush[1].type
    /\ fs[dpush[2].type] = dpush[2].content
    /\ dpush[2].type \in processed
    /\ dpush[1].type \notin processed

\* the push the user started last among the pushes to category c
LastSelected(c) ==
    MaxOf({i \in 1..MaxDocPush : dpush[i].pc # "idle" /\ dpush[i].type = c})
\* C24 (most-recent selection wins): once every push that was started has
\* completed its write and returned, the rules file of each category that
\* was pushed to holds the content of the record selected last for it.
C24_LastSelectionWins ==
    \A c \in Category :
        (/\ \A i \in 1..MaxDocPush : dpush[i].pc \in {"idle", "done"}
         /\ \E i \in 1..MaxDocPush : dpush[i].pc = "done" /\ dpush[i].type = c)
        => fs[c] = dpush[LastSelected(c)].content

\* the operation of call i of trackSyncOperation has started and the call
\* has not reached its finally block
TrkRunning(i) == dpush[i].pc \in {"write", "writing", "returned", "threw"}
\* C33 (overlapping calls on one path): while the operation of any call of
\* trackSyncOperation is running, the path of that call is in the in-flight
\* set, also when another call on the same path has finished meanwhile.
C33_InSetUntilLastFinishes ==
    \A i \in 1..MaxDocPush :
        TrkRunning(i) => isSyncing(RulesPath(ide, dpush[i].type))

(***************************************************************************)
(* Claims checked under SpecWatch                                          *)
(***************************************************************************)
\* C39: when start() ran once, whatever workspace-folder changes followed,
\* at most one watcher is active on each rules path, and one external change
\* of a rules file invokes the change handler at most once
C39_OneWatcherPerPath ==
    rulesWatch.listeners <= 1 =>
        /\ \A p \in WatchPaths : rulesWatch.active[p] <= 1
        /\ rulesWatch.invoked <= 1

(***************************************************************************)
(* Claims checked under SpecPick                                           *)
(***************************************************************************)
\* C36 (the success message follows a completed write): the step that shows
\* "has been synced to IDE" for a selection is taken from the state in which
\* the write of that selection has completed.
C36_SuccessAfterWrite ==
    [][\A i \in 1..MaxDocPush :
          (dpush'[i].pc = "success" /\ dpush[i].pc # "success")
          => dpush[i].pc = "returned"]_vars

(***************************************************************************)
(* Claims checked under SpecStore                                          *)
(***************************************************************************)
\* C13 (exact-match classification): when the watcher callback has run for
\* a rules file whose content equals the content of a record saved in that
\* category, its outcome is "known" (no import dialog).
C13_ExactMatchKnown ==
    (/\ lastOp.op = "classify"
     /\ rulesText[lastOp.type] # NoFile
     /\ \E r \in saved[lastOp.type] : r.content = rulesText[lastOp.type])
    => lastOp.out = "known"

\* C15 (round trip): when loadPrompts(c) has run on a directory that holds
\* just the file of a record R handed to savePrompt, the returned list has a
\* record equal to R in meta and content.
C15_RoundTrip ==
    (/\ lastOp.op = "load"
     /\ Files(lastOp.type) = {"f1"}
     /\ saved[lastOp.type] # {})
    => \A R \in saved[lastOp.type] : \E e \in lastOp.list : e.prompt = R

\* C16 (import leaves the rules file alone): a step that is an import
\* (importFromIdeRules, or importFromIdeRulesUnsaved with the caller's
\* savePrompt) changes neither the existence nor the content of any rules
\* file.
C16_ImportKeepsRules ==
    [][(lastOp'.op = "import" /\ nops' = nops + 1) => rulesText' = rulesText]_vars

\* ids importFromIdeRules and importFromIdeRulesUnsaved can give
ImportedIds ==
    {ImportedId(ide, how, t) : how \in {"saved", "unsaved"}, t \in 0..MaxClock}

\* C17 (scenario B): with no prompt file in the directory of category c and
\* a rules file holding T, the watcher callback classifies the change as
\* novel; and when the only record handed to the store is one import of T,
\* loadPrompts(c) returns exactly one record, with content T.
C17_ImportThenList ==
    /\ (/\ lastOp.op = "classify"
        /\ Files(lastOp.type) = {}
        /\ rulesText[lastOp.type] # NoFile)
       => lastOp.out = "novel"
    /\ (/\ lastOp.op = "load"
        /\ \E id \in ImportedIds :
              /\ Files(lastOp.type) = {id}
              /\ saved[lastOp.type] =
                    {Rec(lastOp.type, id, PlainName, rulesText[lastOp.type])})
       => /\ Cardinality(lastOp.list) = 1
          /\ \A e \in lastOp.list : e.prompt.content = rulesText[lastOp.type]

\* C27 (no feedback loop after an accepted import): when the watcher callback
\* has run for a rules file whose content is the content of a record that an
\* accepted import stored in that category, and the record's file is still
\* in the directory, its outcome is "known" and no dialog is opened.
C27_ImportedIsKnown ==
    (/\ lastOp.op = "classify"
     /\ rulesText[lastOp.type] # NoFile
     /\ \E id \in ImportedIds :
           /\ id \in Files(lastOp.type)
           /\ Rec(lastOp.type, id, PlainName, rulesText[lastOp.type])
                 \in saved[lastOp.type])
    => lastOp.out = "known"

\* C18 (fresh ids): a step that is an import or a create uses an id under
\* which the category has no file yet, and the number of files of the
\* category grows by exactly one.
C18_FreshIds ==
    [][(lastOp'.op \in {"import", "create"} /\ nops' = nops + 1
        /\ lastOp'.out = "ok")
       => /\ dir[lastOp'.type][lastOp'.id] = NoFile
          /\ Cardinality({f \in FileIds : dir'[lastOp'.type][f] # NoFile})
                = Cardinality(Files(lastOp'.type)) + 1]_vars

\* C19 (listing tolerates malformed files): when loadPrompts(c) has run on a
\* directory with files that parse and files that do not, the list holds
\* the record of every file that parses and an error entry for every file
\* that does not.
C19_MalformedTolerated ==
    (/\ lastOp.op = "load"
     /\ \E f \in Files(lastOp.type) : ParseThrows(dir[lastOp.type][f])
     /\ \E f \in Files(lastOp.type) : ~ParseThrows(dir[lastOp.type][f]))
    => \A f \in Files(lastOp.type) :
          IF ParseThrows(dir[lastOp.type][f])
          THEN \E e \in lastOp.list : e.file = f /\ "error" \in DOMAIN e
          ELSE \E e \in lastOp.list :
                  e.file = f /\ e.prompt = ParsePrompt(dir[lastOp.type][f])

\* C20 (category is the partition): every record loadPrompts(c) returns has
\* meta.type equal to c.
C20_TypeIsPartition ==
    lastOp.op = "load" => \A e \in lastOp.list : e.prompt.meta.type = <<lastOp.type>>

====
